---- MODULE Spec2Model ----
(***************************************************************************)
(* Leadly: the override ledger with the decision view that resolves the    *)
(* effective action of a lead (src/app/decision/decision-inner.tsx), and   *)
(* the draft grid with its debounced edit session                          *)
(* (src/app/drafts/DraftsGrid.tsx), the decision feed (src/app/page.tsx)   *)
(* and the create-lead form (CreateLeadPage).                              *)
(*                                                                         *)
(* Fourteen specifications share the variables:                            *)
(*   SpecDecision   the decision view of one lead, the decision_overrides  *)
(*                  table and other operators appending to it;             *)
(*   SpecReason     the decision view over the reasons an operator types;  *)
(*   SpecDrafts     the draft grid: edits, debounce timers, saves, loads;  *)
(*   SpecDraftsFair the draft grid with the edits of one draft, where a    *)
(*                  pending debounce timer eventually expires;             *)
(*   SpecMetric     editCell on a loaded grid, over every field and every  *)
(*                  raw input up to a bounded length.                      *)
(*   SpecSelect     the grid's selection with commit and delete of the     *)
(*                  selected drafts, without edits;                        *)
(*   SpecBatch      commit and delete of drafts that are being edited;     *)
(*   SpecFeed       the feed: the query of leads_effective and the log;    *)
(*   SpecCreate     the create-lead form and its insert of a draft;        *)
(*   SpecValidate   the validations of the override form and of the        *)
(*                  create-lead form, side by side;                        *)
(*   SpecAdd        addBlankRow of the draft grid, with edits of the new   *)
(*                  draft;                                                 *)
(*   SpecKeys       the edit session of one draft over every input column; *)
(*   SpecSaving     the submit path of the decision view, in its current   *)
(*                  and in its older version (src/unnamed/part_003);       *)
(*   SpecCalled     commitSelected and deleteSelectedDrafts called with    *)
(*                  any selection, the empty one included.                 *)
(* Each specification leaves the variables it does not run at their        *)
(* initial values.                                                         *)
(*                                                                         *)
(* Conventions.  A nullable value is a sequence of length at most one:     *)
(* None is null (or undefined), Some(x) is the value x.  An override       *)
(* reason is a string of which only the whitespace structure matters; it   *)
(* is kept as [pre, core, post]: the number of leading whitespace          *)
(* characters, the length of the text between the first and the last       *)
(* non-whitespace character, and the number of trailing whitespace         *)
(* characters.  A raw cell input of the draft grid is a sequence of        *)
(* one-character strings.                                                  *)
(***************************************************************************)
EXTENDS Integers, Sequences, FiniteSets, Bags, TLC

VARIABLES
    \* ---- decision view (decision-inner.tsx) and its backend ----
    view,                \* which version of the decision view is mounted
    leadId,              \* the lead_id search parameter, None when missing
    leads_scored,        \* backend: lead id -> recommended_action
    decision_overrides,  \* backend: the ledger, in insertion order
    lead,                \* useState: None or Some(recommended_action)
    override,            \* useState: None or Some(latest override row)
    history,             \* useState: rows, as the history query returned them
    loading,             \* useState
    error,               \* useState: None or Some(message)
    overrideAction,      \* useState: the action chosen in the form
    overrideReason,      \* useState: the reason typed in the form
    saving,              \* useState
    saveMsg,             \* useState: None or Some(message)
    fetchPc,             \* position of the effect's fetchAll
    insertReq,           \* None or Some(payload) of the insert in flight
    refreshQ,            \* refresh queries of submitOverride in flight
    insertsOk,           \* history variable: inserts that succeeded
    asOf,                \* history variable: ledger size when the query behind
                         \* the displayed override was served
    \* ---- draft grid (DraftsGrid.tsx) and its backend ----
    lead_drafts,         \* backend: draft id -> editable fields
    rows,                \* useState: draft id -> fields, of the loaded drafts
    gridLoading,         \* useState loading
    gridError,           \* useState error: None or Some(message)
    saveTimers,          \* useRef: draft id -> TRUE while its timer is pending
    dirtyMap,            \* useRef: draft id -> patch (field -> value)
    saves,               \* update calls in flight: a bag of [id, patch]
    loads,               \* load() calls in flight: a bag of [state, origin, data]
    unsent,              \* history variable: draft id -> edits no call carried yet
    editCount,           \* history variable: editCell calls so far
    callCount,           \* history variable: update calls issued so far
    glast,               \* history variable: the last step of the grid, when it
                         \* was the end of an update or the arrival of a load
    \* ---- metric input (clampMetric, parseNumberOrNull) ----
    mKey,                \* the edited field
    mRaw,                \* the raw input
    \* ---- selection, commit and delete of drafts (DraftsGrid.tsx) ----
    selectedIds,         \* useState: draft id -> checked
    rpcs,                \* commit and delete calls in flight: a bag of [op, ids]
    routed,              \* router.push("/") was called: the grid is left
    batchCount,          \* history variable: commit and delete calls issued
    \* ---- decision feed (app/page.tsx) and its backend ----
    leads_effective,     \* backend view: lead id -> effective decision row
    decision_logs,       \* backend table: a bag of logged decisions
    leads,               \* useState: lead id -> row, as fetched
    feedError,           \* useState error: None or Some(message)
    feedLoading,         \* useState loading
    feedPc,              \* position of the effect's fetchLeads
    mounts,              \* history variable: times the feed was opened
    \* ---- create-lead form (CreateLeadPage) ----
    form,                \* useState: company_name and the five metrics
    createLoading,       \* useState loading
    createError,         \* useState error: None or Some(message)
    createReq,           \* None or Some(payload) of the insert in flight
    createRouted,        \* router.push("/drafts") was called
    formEdits,           \* history variable: updates made to the form
    \* ---- addBlankRow of the draft grid ----
    adds,                \* inserts of addBlankRow in flight: a bag of payloads
    addCount,            \* history variable: inserts issued by addBlankRow
    \* ---- the timers of the runtime and the history of the edit session ----
    timerQueue,          \* draft id -> number of its timeouts that are pending
    lastEdit,            \* history variable: draft id -> latest edit of each cell
    anyFailed            \* history variable: an update has failed

dvars == <<view, leadId, leads_scored, decision_overrides, lead, override,
           history, loading, error, overrideAction, overrideReason, saving, saveMsg,
           fetchPc, insertReq, refreshQ, insertsOk, asOf>>
gvars == <<lead_drafts, rows, gridLoading, gridError, saveTimers, dirtyMap,
           saves, loads, unsent, editCount, callCount, glast>>
mvars == <<mKey, mRaw>>
bvars == <<selectedIds, rpcs, routed, batchCount>>
fvars == <<leads_effective, decision_logs, leads, feedError, feedLoading,
           feedPc, mounts>>
cvars == <<form, createLoading, createError, createReq, createRouted,
           formEdits>>
avars == <<adds, addCount>>
hvars == <<timerQueue, lastEdit, anyFailed>>
vars == <<dvars, gvars, mvars, bvars, fvars, cvars, avars, hvars>>

None == <<>>
Some(x) == <<x>>

\* Bag b with one more, and with one less, copy of e.
BagAdd(b, e) == b (+) SetToBag({e})
BagDrop(b, e) == b (-) SetToBag({e})

\* Sequence s without its i-th element.
RemoveAt(s, i) == [j \in 1..(Len(s) - 1) |-> IF j < i THEN s[j] ELSE s[j + 1]]

\* ------------------------------------------------------------------------
\* Bounds of the model
\* ------------------------------------------------------------------------
MaxEvents == 2
MaxReasonEvents == 1
MaxEdits == 2
MaxRawLen == 3
MaxLoads == 1
MaxBatches == 2
MaxMounts == 2
MaxFormEdits == 3
MaxAdds == 1

\* ========================================================================
\* The decision view and the override ledger
\* ========================================================================
Action == {"pursue", "review", "deprioritise", "kill"}

\* The lead the view is opened for in the model, and the other leads of the
\* backend.
LeadIds == {"L1", "L2"}
UnknownLead == "L9"

\* ---- reason strings ----------------------------------------------------
Str(pre, core, post) == [pre |-> pre, core |-> core, post |-> post]
EmptyStr == Str(0, 0, 0)
StrLen(s) == s.pre + s.core + s.post
\* String.prototype.trim
TrimStr(s) == Str(0, s.core, 0)

MaxReason == 280

\* The reasons an operator types in the model: empty, blank, short with
\* padding, and the lengths around the limit with and without padding.
ReasonInputs ==
    { EmptyStr, Str(2, 0, 0), Str(1, 5, 0),
      Str(0, MaxReason, 0), Str(0, MaxReason + 1, 0), Str(0, MaxReason - 1, 2) }

\* ---- messages ----------------------------------------------------------
MissingLeadMsg == "Missing lead_id"
BackendMsg == "backend error"
TooLongMsg == "Reason too long (max 280 characters)."
SavedMsg == "Override saved."

\* ---- the decision_overrides table ---------------------------------------
\* The rows of one lead, in insertion order: .eq("lead_id", leadId)
ForLead(tbl, l) == SelectSeq(tbl, LAMBDA e : e.lead_id = l)

\* created_at is assigned by the server clock at insert.  The clock never
\* runs backwards, and two inserts can fall in the same tick.
NextStamps(tbl) ==
    IF tbl = <<>> THEN {1}
    ELSE {tbl[Len(tbl)].created_at, tbl[Len(tbl)].created_at + 1}

\* A write that replaces the latest row of the lead instead of adding one.
InsertRow_Upsert(tbl, payload, stamp) ==
    LET mine == {i \in 1..Len(tbl) : tbl[i].lead_id = payload.lead_id}
        row == [id |-> Len(tbl) + 1,
                lead_id |-> payload.lead_id,
                override_action |-> payload.override_action,
                override_reason |-> payload.override_reason,
                created_at |-> stamp]
    IN IF mine = {} THEN Append(tbl, row)
       ELSE [tbl EXCEPT ![CHOOSE i \in mine : \A j \in mine : i >= j] =
                [row EXCEPT !.id = @ - 1]]

\* .insert([{lead_id, override_action, override_reason}]): one new row, with
\* the server-assigned id (the insertion sequence) and created_at.
InsertRow(tbl, payload, stamp) ==
    Append(tbl, [id |-> Len(tbl) + 1,
                 lead_id |-> payload.lead_id,
                 override_action |-> payload.override_action,
                 override_reason |-> payload.override_reason,
                 created_at |-> stamp])

\* .select(cols)
Select(e, cols) == [c \in cols |-> e[c]]
OverrideCols == {"lead_id", "override_action", "override_reason", "created_at"}
HistoryCols == {"id", "lead_id", "override_action", "override_reason", "created_at"}

\* .order("created_at", {ascending: false}): every order of the rows in which
\* created_at never increases; rows of equal created_at come in any order.
OrderedByCreatedAtDesc(es) ==
    LET n == Len(es)
        ords == {p \in [1..n -> 1..n] :
                    /\ \A i, j \in 1..n : i # j => p[i] # p[j]
                    /\ \A i, j \in 1..n :
                          i < j => es[p[i]].created_at >= es[p[j]].created_at}
    IN {[i \in 1..n |-> es[p[i]]] : p \in ords}

\* .limit(1)
Limit1(s) == IF s = <<>> THEN <<>> ELSE <<s[1]>>

\* The possible results of the latest-override query of fetchAll.
LatestOverrideQuery(tbl, l) ==
    {[i \in 1..Len(Limit1(r)) |-> Select(r[i], OverrideCols)] :
        r \in OrderedByCreatedAtDesc(ForLead(tbl, l))}

\* The possible results of the history query (fetchAll and the refresh of
\* submitOverride).
HistoryQuery(tbl, l) ==
    {[i \in 1..Len(r) |-> Select(r[i], HistoryCols)] :
        r \in OrderedByCreatedAtDesc(ForLead(tbl, l))}

\* ---- derived view state -------------------------------------------------
\* override?.override_action ?? lead?.recommended_action ?? "review"
effectiveAction ==
    IF override # None THEN override[1].override_action
    ELSE IF lead # None THEN lead[1]
    ELSE "review"

\* The form and the history are rendered: not loading, no error, a lead.
Rendered == ~loading /\ error = None /\ lead # None

\* overrideReason.length > 280
ReasonTooLong(r) == StrLen(r) > MaxReason

\* The trimmed reason, with no null for the empty one.
ReasonPayload_NoNull(r) == Some(TrimStr(r))

\* overrideReason.trim() || null
ReasonPayload(r) == IF StrLen(TrimStr(r)) = 0 THEN None ELSE Some(TrimStr(r))


\* if (loading) ...; if (error || !lead): the "Decision not found" page.
NotFoundShown == ~loading /\ (error # None \/ lead = None)

\* The effect with no lead_id, leaving the loading indicator on.
MissingLeadId_KeepLoading ==
    /\ fetchPc = "start"
    /\ leadId = None
    /\ error' = Some(MissingLeadMsg)
    /\ fetchPc' = "done"
    /\ UNCHANGED <<view, leadId, leads_scored, decision_overrides, lead, override,
                   history, loading, overrideAction, overrideReason, saving,
                   saveMsg, insertReq, refreshQ, insertsOk, asOf>>
    /\ UNCHANGED <<gvars, mvars, bvars, fvars, cvars, avars, hvars>>

\* ---- the effect: fetchAll ------------------------------------------------
\* useEffect with no lead_id: the error is set and nothing is fetched.
MissingLeadId ==
    /\ fetchPc = "start"
    /\ leadId = None
    /\ error' = Some(MissingLeadMsg)
    /\ loading' = FALSE
    /\ fetchPc' = "done"
    /\ UNCHANGED <<view, leadId, leads_scored, decision_overrides, lead, override,
                   history, overrideAction, overrideReason, saving, saveMsg,
                   insertReq, refreshQ, insertsOk, asOf>>
    /\ UNCHANGED <<gvars, mvars, bvars, fvars, cvars, avars, hvars>>

\* 1: the scored decision, .single(): an error when the query fails or the
\* lead has no row.
FetchDecision ==
    /\ fetchPc = "start"
    /\ leadId # None
    /\ \/ /\ leadId[1] \in DOMAIN leads_scored
          /\ lead' = Some(leads_scored[leadId[1]])
          /\ overrideAction' = leads_scored[leadId[1]]
          /\ fetchPc' = "override"
          /\ UNCHANGED <<error, loading>>
       \/ /\ error' = Some(BackendMsg)
          /\ loading' = FALSE
          /\ fetchPc' = "done"
          /\ UNCHANGED <<lead, overrideAction>>
    /\ UNCHANGED <<view, leadId, leads_scored, decision_overrides, override, history,
                   overrideReason, saving, saveMsg, insertReq, refreshQ,
                   insertsOk, asOf>>
    /\ UNCHANGED <<gvars, mvars, bvars, fvars, cvars, avars, hvars>>

\* 2: the latest override; on an error or no row, setOverride(null).
FetchLatestOverride ==
    /\ view = "decision-inner"
    /\ fetchPc = "override"
    /\ \/ \E data \in LatestOverrideQuery(decision_overrides, leadId[1]) :
             override' = (IF Len(data) > 0 THEN Some(data[1]) ELSE None)
       \/ override' = None
    /\ asOf' = Len(decision_overrides)
    /\ fetchPc' = "history"
    /\ UNCHANGED <<view, leadId, leads_scored, decision_overrides, lead, history,
                   loading, error, overrideAction, overrideReason, saving,
                   saveMsg, insertReq, refreshQ, insertsOk>>
    /\ UNCHANGED <<gvars, mvars, bvars, fvars, cvars, avars, hvars>>

\* 3: the full history; on an error the history is left as it is.
FetchHistory ==
    /\ view = "decision-inner"
    /\ fetchPc = "history"
    /\ \/ \E data \in HistoryQuery(decision_overrides, leadId[1]) :
             history' = data
       \/ history' = history
    /\ loading' = FALSE
    /\ fetchPc' = "done"
    /\ UNCHANGED <<view, leadId, leads_scored, decision_overrides, lead, override,
                   error, overrideAction, overrideReason, saving, saveMsg,
                   insertReq, refreshQ, insertsOk, asOf>>
    /\ UNCHANGED <<gvars, mvars, bvars, fvars, cvars, avars, hvars>>

\* ---- the override form ---------------------------------------------------
SetOverrideAction(a) ==
    /\ Rendered
    /\ overrideAction' = a
    /\ UNCHANGED <<view, leadId, leads_scored, decision_overrides, lead, override,
                   history, loading, error, overrideReason, saving, saveMsg,
                   fetchPc, insertReq, refreshQ, insertsOk, asOf>>
    /\ UNCHANGED <<gvars, mvars, bvars, fvars, cvars, avars, hvars>>

SetOverrideReason(r) ==
    /\ Rendered
    /\ overrideReason' = r
    /\ UNCHANGED <<view, leadId, leads_scored, decision_overrides, lead, override,
                   history, loading, error, overrideAction, saving, saveMsg,
                   fetchPc, insertReq, refreshQ, insertsOk, asOf>>
    /\ UNCHANGED <<gvars, mvars, bvars, fvars, cvars, avars, hvars>>

\* submitOverride up to its first await: the validation, then the insert is
\* issued with the action and the reason of this moment.  The button is
\* disabled while saving.
SubmitOverride ==
    /\ view = "decision-inner"
    /\ Rendered
    /\ ~saving
    /\ leadId # None
    /\ IF ReasonTooLong(overrideReason)
       THEN /\ saveMsg' = Some(TooLongMsg)
            /\ saving' = FALSE
            /\ UNCHANGED insertReq
       ELSE /\ saveMsg' = None
            /\ saving' = TRUE
            /\ insertReq' = Some([lead_id |-> leadId[1],
                                  override_action |-> overrideAction,
                                  override_reason |-> ReasonPayload(overrideReason)])
    /\ UNCHANGED <<view, leadId, leads_scored, decision_overrides, lead, override,
                   history, loading, error, overrideAction, overrideReason,
                   fetchPc, refreshQ, insertsOk, asOf>>
    /\ UNCHANGED <<gvars, mvars, bvars, fvars, cvars, avars, hvars>>

\* The insert succeeded: the row is in the table, the form is reset and the
\* refresh query is issued.
InsertOk(cap) ==
    /\ view = "decision-inner"
    /\ insertReq # None
    /\ Len(decision_overrides) < cap
    /\ \E stamp \in NextStamps(decision_overrides) :
          decision_overrides' = InsertRow(decision_overrides, insertReq[1], stamp)
    /\ insertsOk' = insertsOk + 1
    /\ insertReq' = None
    /\ overrideReason' = EmptyStr
    /\ saveMsg' = Some(SavedMsg)
    /\ saving' = FALSE
    /\ refreshQ' = Append(refreshQ, [state |-> "sent"])
    /\ UNCHANGED <<view, leadId, leads_scored, lead, override, history, loading,
                   error, overrideAction, fetchPc, asOf>>
    /\ UNCHANGED <<gvars, mvars, bvars, fvars, cvars, avars, hvars>>

\* The insert failed, and the typed reason is cleared as after a success.
InsertFailed_ClearReason ==
    /\ insertReq # None
    /\ insertReq' = None
    /\ saveMsg' = Some(BackendMsg)
    /\ saving' = FALSE
    /\ overrideReason' = EmptyStr
    /\ UNCHANGED <<view, leadId, leads_scored, decision_overrides, lead, override,
                   history, loading, error, overrideAction, fetchPc, refreshQ,
                   insertsOk, asOf>>
    /\ UNCHANGED <<gvars, mvars, bvars, fvars, cvars, avars, hvars>>

\* The insert failed: the message is shown, nothing else changes.
InsertFailed ==
    /\ insertReq # None
    /\ insertReq' = None
    /\ saveMsg' = Some(BackendMsg)
    /\ saving' = FALSE
    /\ UNCHANGED <<view, leadId, leads_scored, decision_overrides, lead, override,
                   history, loading, error, overrideAction, overrideReason,
                   fetchPc, refreshQ, insertsOk, asOf>>
    /\ UNCHANGED <<gvars, mvars, bvars, fvars, cvars, avars, hvars>>

\* The backend serves a refresh query: the rows of the lead newest first, or
\* an error (data is null).
RefreshServe(i) ==
    /\ view = "decision-inner"
    /\ refreshQ[i].state = "sent"
    /\ \E data \in {Some(d) : d \in HistoryQuery(decision_overrides, leadId[1])}
                   \cup {None} :
          refreshQ' = [refreshQ EXCEPT ![i] =
                          [state |-> "served", data |-> data,
                           asOf |-> Len(decision_overrides)]]
    /\ UNCHANGED <<view, leadId, leads_scored, decision_overrides, lead, override,
                   history, loading, error, overrideAction, overrideReason,
                   saving, saveMsg, fetchPc, insertReq, insertsOk, asOf>>
    /\ UNCHANGED <<gvars, mvars, bvars, fvars, cvars, avars, hvars>>

\* The response of a refresh query arrives: if (data) { setOverride(data[0]);
\* setHistory(data) }.  Responses arrive in any order.
RefreshApply(i) ==
    /\ view = "decision-inner"
    /\ refreshQ[i].state = "served"
    /\ IF refreshQ[i].data # None
       THEN /\ override' = Limit1(refreshQ[i].data[1])
            /\ history' = refreshQ[i].data[1]
       ELSE UNCHANGED <<override, history>>
    /\ asOf' = refreshQ[i].asOf
    /\ refreshQ' = RemoveAt(refreshQ, i)
    /\ UNCHANGED <<view, leadId, leads_scored, decision_overrides, lead, loading,
                   error, overrideAction, overrideReason, saving, saveMsg,
                   fetchPc, insertReq, insertsOk>>
    /\ UNCHANGED <<gvars, mvars, bvars, fvars, cvars, avars, hvars>>

\* Another operator's submitOverride inserts a row for some lead.
OperatorInsert(l, a) ==
    /\ Len(decision_overrides) < MaxEvents
    /\ \E stamp \in NextStamps(decision_overrides) :
          decision_overrides' =
              InsertRow(decision_overrides,
                        [lead_id |-> l, override_action |-> a,
                         override_reason |-> None], stamp)
    /\ insertsOk' = insertsOk + 1
    /\ UNCHANGED <<view, leadId, leads_scored, lead, override, history, loading,
                   error, overrideAction, overrideReason, saving, saveMsg,
                   fetchPc, insertReq, refreshQ, asOf>>
    /\ UNCHANGED <<gvars, mvars, bvars, fvars, cvars, avars, hvars>>

\* ---- the older version of the view --------------------------------------
\* Its effect ends with the latest override: it keeps no history.
OlderFetchLatestOverride ==
    /\ view = "older"
    /\ fetchPc = "override"
    /\ \/ \E data \in LatestOverrideQuery(decision_overrides, leadId[1]) :
             override' = (IF Len(data) > 0 THEN Some(data[1]) ELSE None)
       \/ override' = None
    /\ asOf' = Len(decision_overrides)
    /\ loading' = FALSE
    /\ fetchPc' = "done"
    /\ UNCHANGED <<view, leadId, leads_scored, decision_overrides, lead,
                   history, error, overrideAction, overrideReason, saving,
                   saveMsg, insertReq, refreshQ, insertsOk>>
    /\ UNCHANGED <<gvars, mvars, bvars, fvars, cvars, avars, hvars>>

\* reasonClean.length > 280: the older view measures the trimmed reason.
OlderReasonTooLong(r) == StrLen(TrimStr(r)) > MaxReason

\* submitOverride of the older view up to its first await.
OlderSubmitOverride ==
    /\ view = "older"
    /\ Rendered
    /\ ~saving
    /\ leadId # None
    /\ IF OlderReasonTooLong(overrideReason)
       THEN /\ saveMsg' = Some(TooLongMsg)
            /\ saving' = FALSE
            /\ UNCHANGED insertReq
       ELSE /\ saveMsg' = None
            /\ saving' = TRUE
            /\ insertReq' = Some([lead_id |-> leadId[1],
                                  override_action |-> overrideAction,
                                  override_reason |-> ReasonPayload(overrideReason)])
    /\ UNCHANGED <<view, leadId, leads_scored, decision_overrides, lead,
                   override, history, loading, error, overrideAction,
                   overrideReason, fetchPc, refreshQ, insertsOk, asOf>>
    /\ UNCHANGED <<gvars, mvars, bvars, fvars, cvars, avars, hvars>>

\* The insert of the older view succeeded: the row is in the table and the
\* latest override is fetched again, with saving still set.
OlderInsertOk(cap) ==
    /\ view = "older"
    /\ insertReq # None
    /\ Len(decision_overrides) < cap
    /\ \E stamp \in NextStamps(decision_overrides) :
          decision_overrides' = InsertRow(decision_overrides, insertReq[1], stamp)
    /\ insertsOk' = insertsOk + 1
    /\ insertReq' = None
    /\ refreshQ' = Append(refreshQ, [state |-> "sent"])
    /\ UNCHANGED <<view, leadId, leads_scored, lead, override, history,
                   loading, error, overrideAction, overrideReason, saving,
                   saveMsg, fetchPc, asOf>>
    /\ UNCHANGED <<gvars, mvars, bvars, fvars, cvars, avars, hvars>>

\* The backend serves the re-fetch: the latest override, or an error.
OlderRefetchServe(i) ==
    /\ view = "older"
    /\ refreshQ[i].state = "sent"
    /\ \E data \in {Some(d) : d \in LatestOverrideQuery(decision_overrides, leadId[1])}
                   \cup {None} :
          refreshQ' = [refreshQ EXCEPT ![i] =
                          [state |-> "served", data |-> data,
                           asOf |-> Len(decision_overrides)]]
    /\ UNCHANGED <<view, leadId, leads_scored, decision_overrides, lead,
                   override, history, loading, error, overrideAction,
                   overrideReason, saving, saveMsg, fetchPc, insertReq,
                   insertsOk, asOf>>
    /\ UNCHANGED <<gvars, mvars, bvars, fvars, cvars, avars, hvars>>

\* The re-fetch returned, and saving is left set.
OlderRefetchApply_KeepSaving(i) ==
    /\ view = "older"
    /\ refreshQ[i].state = "served"
    /\ IF refreshQ[i].data # None /\ refreshQ[i].data[1] # <<>>
       THEN /\ override' = Some(refreshQ[i].data[1][1])
            /\ asOf' = refreshQ[i].asOf
       ELSE UNCHANGED <<override, asOf>>
    /\ refreshQ' = RemoveAt(refreshQ, i)
    /\ overrideReason' = EmptyStr
    /\ saveMsg' = Some(SavedMsg)
    /\ UNCHANGED <<view, leadId, leads_scored, decision_overrides, lead,
                   history, loading, error, overrideAction, saving, fetchPc,
                   insertReq, insertsOk>>
    /\ UNCHANGED <<gvars, mvars, bvars, fvars, cvars, avars, hvars>>

\* The re-fetch returned: if (!error && data?.length) setOverride(data[0]);
\* then the form is reset and saving ends.
OlderRefetchApply(i) ==
    /\ view = "older"
    /\ refreshQ[i].state = "served"
    /\ IF refreshQ[i].data # None /\ refreshQ[i].data[1] # <<>>
       THEN /\ override' = Some(refreshQ[i].data[1][1])
            /\ asOf' = refreshQ[i].asOf
       ELSE UNCHANGED <<override, asOf>>
    /\ refreshQ' = RemoveAt(refreshQ, i)
    /\ overrideReason' = EmptyStr
    /\ saving' = FALSE
    /\ saveMsg' = Some(SavedMsg)
    /\ UNCHANGED <<view, leadId, leads_scored, decision_overrides, lead,
                   history, loading, error, overrideAction, fetchPc,
                   insertReq, insertsOk>>
    /\ UNCHANGED <<gvars, mvars, bvars, fvars, cvars, avars, hvars>>

DecisionInit ==
    /\ view = "decision-inner"
    /\ leadId \in {None, Some("L1"), Some(UnknownLead)}
    /\ leads_scored = [l \in LeadIds |-> IF l = "L1" THEN "pursue" ELSE "review"]
    /\ decision_overrides = <<>>
    /\ lead = None
    /\ override = None
    /\ history = <<>>
    /\ loading = TRUE
    /\ error = None
    /\ overrideAction = "review"
    /\ overrideReason = EmptyStr
    /\ saving = FALSE
    /\ saveMsg = None
    /\ fetchPc = "start"
    /\ insertReq = None
    /\ refreshQ = <<>>
    /\ insertsOk = 0
    /\ asOf = 0

\* The inputs of the two specifications of the view.  SpecDecision varies
\* the actions and the other operators; SpecReason varies the typed reason.
ChosenActions == {"pursue", "kill"}
OperatorActions == {"review"}
TypedReasons == {EmptyStr, Str(0, MaxReason + 1, 0)}

DecisionNext ==
    \/ MissingLeadId
    \/ FetchDecision
    \/ FetchLatestOverride
    \/ FetchHistory
    \/ \E a \in ChosenActions : SetOverrideAction(a)
    \/ \E r \in TypedReasons : SetOverrideReason(r)
    \/ SubmitOverride
    \/ InsertOk(MaxEvents)
    \/ InsertFailed
    \/ \E i \in 1..Len(refreshQ) : RefreshServe(i)
    \/ \E i \in 1..Len(refreshQ) : RefreshApply(i)
    \/ \E l \in LeadIds, a \in OperatorActions : OperatorInsert(l, a)

ReasonNext ==
    \/ MissingLeadId
    \/ FetchDecision
    \/ FetchLatestOverride
    \/ FetchHistory
    \/ \E r \in ReasonInputs : SetOverrideReason(r)
    \/ SubmitOverride
    \/ InsertOk(MaxReasonEvents)
    \/ InsertFailed
    \/ \E i \in 1..Len(refreshQ) : RefreshServe(i)
    \/ \E i \in 1..Len(refreshQ) : RefreshApply(i)

\* ========================================================================
\* Cell values of the draft grid
\* ========================================================================
EditableKey ==
    {"company_name", "contact_name", "email", "phone", "estimated_spend",
     "source", "buyer_quality", "deal_simplicity", "strategic_value",
     "momentum", "morale_risk"}
MetricKey ==
    {"buyer_quality", "deal_simplicity", "strategic_value", "momentum",
     "morale_risk"}

\* ---- raw input strings ----------------------------------------------------
WhiteSpace == {" "}
DigitValue == [c \in {"0", "1", "2", "3", "4", "5", "6", "7", "8", "9"} |->
                 CASE c = "0" -> 0 [] c = "1" -> 1 [] c = "2" -> 2 [] c = "3" -> 3
                   [] c = "4" -> 4 [] c = "5" -> 5 [] c = "6" -> 6 [] c = "7" -> 7
                   [] c = "8" -> 8 [] c = "9" -> 9]
Digit == DOMAIN DigitValue

\* String.prototype.trim
Trim(s) ==
    LET ink == {i \in 1..Len(s) : s[i] \notin WhiteSpace}
    IN IF ink = {} THEN <<>>
       ELSE SubSeq(s, CHOOSE i \in ink : \A j \in ink : i <= j,
                      CHOOSE i \in ink : \A j \in ink : i >= j)

AllDigits(s) == \A i \in 1..Len(s) : s[i] \in Digit

RECURSIVE DigitsToInt(_)
DigitsToInt(s) ==
    IF s = <<>> THEN 0
    ELSE 10 * DigitsToInt(SubSeq(s, 1, Len(s) - 1)) + DigitValue[s[Len(s)]]

\* Number(s) of a trimmed, non-empty string of signs, dots, digits and
\* letters other than those of exponents, radix prefixes and "Infinity": a
\* decimal literal with an optional sign, or NaN (None).  The number is kept
\* as its sign, its integer part and its fraction digits.
ToNumber(s) ==
    LET signed == s[1] \in {"-", "+"}
        body == IF signed THEN SubSeq(s, 2, Len(s)) ELSE s
        dots == {i \in 1..Len(body) : body[i] = "."}
        dot == IF dots = {} THEN Len(body) + 1
               ELSE CHOOSE i \in dots : \A j \in dots : i <= j
        ip == SubSeq(body, 1, dot - 1)
        fp == SubSeq(body, dot + 1, Len(body))
    IN IF /\ AllDigits(ip)
          /\ AllDigits(fp)
          /\ Len(ip) + Len(fp) > 0
       THEN Some([neg |-> signed /\ s[1] = "-",
                  int |-> DigitsToInt(ip),
                  frac |-> fp])
       ELSE None

\* Math.trunc
Trunc(n) == IF n.neg THEN 0 - n.int ELSE n.int

Max(a, b) == IF a >= b THEN a ELSE b
Min(a, b) == IF a <= b THEN a ELSE b

\* clampMetric without the lower clamp.
clampMetric_NoFloor(v) ==
    IF v = None THEN None ELSE Some(Min(5, Trunc(v[1])))

\* clampMetric: null and NaN give null, else the truncated value clamped.
clampMetric(v) ==
    IF v = None THEN None ELSE Some(Max(1, Min(5, Trunc(v[1]))))

\* parseNumberOrNull: blank gives null; every number ToNumber yields is
\* finite.
parseNumberOrNull(raw) ==
    LET s == Trim(raw)
    IN IF s = <<>> THEN None ELSE ToNumber(s)

\* The value stored for a raw input, with the text of a free-text cell
\* trimmed.
EditValue_TrimText(key, raw) ==
    IF key = "estimated_spend" THEN parseNumberOrNull(raw)
    ELSE IF key \in MetricKey THEN clampMetric(parseNumberOrNull(raw))
    ELSE IF Trim(raw) = <<>> THEN None ELSE Some(Trim(raw))

\* The value editCell stores for a raw input.
EditValue(key, raw) ==
    IF key = "estimated_spend" THEN parseNumberOrNull(raw)
    ELSE IF key \in MetricKey THEN clampMetric(parseNumberOrNull(raw))
    ELSE IF Trim(raw) = <<>> THEN None ELSE Some(raw)

\* ========================================================================
\* The draft grid
\* ========================================================================
Drafts == {"d1", "d2"}

\* COLUMNS: the key and the kind of every column of the grid.
Columns ==
    {[key |-> k, kind |-> "text"] :
        k \in {"company_name", "contact_name", "email", "phone", "source"}}
    \cup {[key |-> k, kind |-> "number"] :
        k \in {"estimated_spend", "buyer_quality", "deal_simplicity",
               "strategic_value", "momentum", "morale_risk"}}
    \cup {[key |-> k, kind |-> "readonly"] : k \in {"score", "recommended_action"}}

\* The columns rendered as an input whose onChange calls editCell: those
\* whose kind is not readonly.
InputKeys == {c.key : c \in {x \in Columns : x.kind # "readonly"}}

\* The edits made in the model: the draft, the cell and the raw input.
EditInputs ==
    { <<"d1", "company_name", <<"a">> >>,
      <<"d1", "company_name", <<"b">> >>,
      <<"d1", "buyer_quality", <<"7", ".", "8">> >>,
      <<"d2", "email", <<"c">> >> }

SaveFailedMsg == "Save failed: backend error"

EmptyPatch == [k \in {} |-> None]

\* A patch that holds the new cell alone.
StagePatch_Replace(patch, key, v) == [k \in {key} |-> v]

\* A merge in which the staged value wins over the new one.
StagePatch_KeepFirst(patch, key, v) ==
    [k \in DOMAIN patch \cup {key} |-> IF k \in DOMAIN patch THEN patch[k] ELSE v]

\* A merge that also stages the status of the draft.
StagePatch_WithStatus(patch, key, v) ==
    [k \in DOMAIN patch \cup {key, "status"} |->
        IF k = key THEN v ELSE IF k = "status" THEN "draft" ELSE patch[k]]

\* {...(dirtyMap.current[id] ?? {}), [key]: nextValue}
StagePatch(patch, key, v) ==
    [k \in DOMAIN patch \cup {key} |-> IF k = key THEN v ELSE patch[k]]

\* The buffer is not swapped when the patch is taken.
SwapBuffer_Keep(dm, id) == dm

\* dirtyMap.current[id] = {} before the request
SwapBuffer(dm, id) == [dm EXCEPT ![id] = EmptyPatch]

\* .update(patch).eq("id", id): the fields of the patch are written to the
\* row with that id, whatever its status; the others are left.  No row has
\* the id once the draft is deleted.
UpdateRow(tbl, id, patch) ==
    [d \in DOMAIN tbl |->
        IF d = id
        THEN [k \in DOMAIN tbl[d] |-> IF k \in DOMAIN patch THEN patch[k] ELSE tbl[d][k]]
        ELSE tbl[d]]

\* from("lead_drafts_scored").select("*").eq("status", "draft")
\* The order of the rows (updated_at) is not modelled: rows are found by id.
DraftsQuery(tbl) ==
    LET ids == {d \in DOMAIN tbl : tbl[d].status = "draft"}
    IN [d \in ids |-> tbl[d]]

\* The cell is set in every row, whatever its id.
setCellLocal_AllRows(rs, id, key, value) ==
    [d \in DOMAIN rs |-> [rs[d] EXCEPT ![key] = value]]

\* setRows(prev => prev.map(r => r.id === id ? {...r, [key]: value} : r))
setCellLocal(rs, id, key, value) ==
    [d \in DOMAIN rs |->
        IF d = id THEN [rs[d] EXCEPT ![key] = value] ELSE rs[d]]

\* History: the latest value edited into each cell.
LatestEdits(us, key, v) ==
    [k \in DOMAIN us \cup {key} |-> IF k # key THEN us[k] ELSE v]

\* The edits of a patch that a call carries are no longer unsent.
Carried(us, patch) ==
    LET left == {k \in DOMAIN us : ~(k \in DOMAIN patch /\ patch[k] = us[k])}
    IN [k \in left |-> us[k]]

\* A load() whose query is sent: started by the component (the mount, the
\* Refresh button: "ui"), by a completed update ("save"), delete ("delete")
\* or insert of addBlankRow ("add").  sel is the id addBlankRow selects when
\* its load() has returned.
SentLoad(origin) == [state |-> "sent", origin |-> origin, data |-> None, sel |-> None]

\* A row of lead_drafts as insert([{ status: "draft" }]) leaves it.
SystemKey == {"status", "committed_at", "committed_lead_id"}
BlankDraft == [k \in EditableKey \cup SystemKey |->
                 IF k = "status" THEN "draft" ELSE None]

\* scheduleSave with no clearTimeout: the timeout is added to those pending.
scheduleSave_NoClear(q, held, id) == [q EXCEPT ![id] = @ + 1]

\* scheduleSave: if (saveTimers.current[id]) clearTimeout(...), then
\* setTimeout.  held: the timeout the ref holds is still pending; clearing an
\* expired one does nothing.
scheduleSave(q, held, id) ==
    [q EXCEPT ![id] = (IF held THEN @ - 1 ELSE @) + 1]

\* editCell(id, key, raw), with setCellLocal and scheduleSave: the cell of a
\* draft row is editable; the timer of the draft is restarted.
EditCell(id, key, raw) ==
    /\ ~routed
    /\ editCount < MaxEdits
    /\ id \in DOMAIN rows
    /\ rows[id].status = "draft"
    /\ LET v == EditValue(key, raw)
       IN /\ rows' = setCellLocal(rows, id, key, v)
          /\ dirtyMap' = [dirtyMap EXCEPT ![id] = StagePatch(dirtyMap[id], key, v)]
          /\ unsent' = [unsent EXCEPT ![id] = LatestEdits(unsent[id], key, v)]
    /\ saveTimers' = [saveTimers EXCEPT ![id] = TRUE]
    /\ editCount' = editCount + 1
    /\ glast' = [op |-> "editCell", id |-> id]
    /\ UNCHANGED <<lead_drafts, gridLoading, gridError, saves, loads, callCount>>
    /\ timerQueue' = scheduleSave(timerQueue, saveTimers[id], id)
    /\ lastEdit' = [lastEdit EXCEPT ![id] = LatestEdits(lastEdit[id], key, EditValue(key, raw))]
    /\ UNCHANGED anyFailed
    /\ UNCHANGED <<dvars, mvars, bvars, fvars, cvars, avars>>

\* The timer of a draft expires, and the buffer is swapped before the patch
\* is read: the update is issued with the fresh, empty patch.
TimerFire_SwapFirst(id) ==
    /\ saveTimers[id]
    /\ saveTimers' = [saveTimers EXCEPT ![id] = FALSE]
    /\ dirtyMap' = SwapBuffer(dirtyMap, id)
    /\ saves' = BagAdd(saves, [id |-> id, patch |-> EmptyPatch])
    /\ unsent' = [unsent EXCEPT ![id] = EmptyPatch]
    /\ callCount' = callCount + 1
    /\ glast' = [op |-> "other", id |-> "-"]
    /\ UNCHANGED <<lead_drafts, rows, gridLoading, gridError, loads, editCount>>
    /\ timerQueue' = [timerQueue EXCEPT ![id] = @ - 1]
    /\ UNCHANGED <<lastEdit, anyFailed>>
    /\ UNCHANGED <<dvars, mvars, bvars, fvars, cvars, avars>>

\* The timer of a draft expires: with an empty patch nothing happens, else
\* the buffer is swapped and the update is issued.
TimerFire(id) ==
    /\ saveTimers[id]
    /\ saveTimers' = [saveTimers EXCEPT ![id] = FALSE]
    /\ IF DOMAIN dirtyMap[id] = {}
       THEN UNCHANGED <<dirtyMap, saves, unsent, callCount>>
       ELSE /\ dirtyMap' = SwapBuffer(dirtyMap, id)
            /\ saves' = BagAdd(saves, [id |-> id, patch |-> dirtyMap[id]])
            /\ unsent' = [unsent EXCEPT ![id] = Carried(unsent[id], dirtyMap[id])]
            /\ callCount' = callCount + 1
    /\ glast' = [op |-> "other", id |-> "-"]
    /\ UNCHANGED <<lead_drafts, rows, gridLoading, gridError, loads, editCount>>
    /\ timerQueue' = [timerQueue EXCEPT ![id] = @ - 1]
    /\ UNCHANGED <<lastEdit, anyFailed>>
    /\ UNCHANGED <<dvars, mvars, bvars, fvars, cvars, avars>>

\* An update succeeded, and the rows take the fields of the patch that was
\* sent instead of being loaded again.
SaveOk_ApplyPayload(s) ==
    /\ lead_drafts' = UpdateRow(lead_drafts, s.id, s.patch)
    /\ saves' = BagDrop(saves, s)
    /\ rows' = UpdateRow(rows, s.id, s.patch)
    /\ gridError' = None
    /\ glast' = [op |-> "saveOk", id |-> s.id]
    /\ UNCHANGED <<gridLoading, loads, saveTimers, dirtyMap, unsent, editCount,
                   callCount>>
    /\ UNCHANGED <<dvars, mvars, bvars, fvars, cvars, avars, hvars>>

\* An update succeeded: the row is written and load() starts.
SaveOk(s) ==
    /\ lead_drafts' = UpdateRow(lead_drafts, s.id, s.patch)
    /\ saves' = BagDrop(saves, s)
    /\ gridLoading' = TRUE
    /\ gridError' = None
    /\ loads' = BagAdd(loads, SentLoad("save"))
    /\ glast' = [op |-> "saveOk", id |-> s.id]
    /\ UNCHANGED <<rows, saveTimers, dirtyMap, unsent, editCount, callCount>>
    /\ UNCHANGED <<dvars, mvars, bvars, fvars, cvars, avars, hvars>>

\* An update failed: the error is shown.
SaveFailed(s) ==
    /\ saves' = BagDrop(saves, s)
    /\ gridError' = Some(SaveFailedMsg)
    /\ glast' = [op |-> "saveFailed", id |-> s.id, patch |-> s.patch]
    /\ UNCHANGED <<lead_drafts, rows, gridLoading, saveTimers, dirtyMap, loads,
                   unsent, editCount, callCount>>
    /\ anyFailed' = TRUE
    /\ UNCHANGED <<timerQueue, lastEdit>>
    /\ UNCHANGED <<dvars, mvars, bvars, fvars, cvars, avars>>

\* The Refresh button: load() starts.  At most MaxLoads calls of load() are
\* in flight when it is pressed.
RefreshClick ==
    /\ ~routed
    /\ BagCardinality(loads) < MaxLoads
    /\ gridLoading' = TRUE
    /\ gridError' = None
    /\ loads' = BagAdd(loads, SentLoad("ui"))
    /\ glast' = [op |-> "other", id |-> "-"]
    /\ UNCHANGED <<lead_drafts, rows, saveTimers, dirtyMap, saves, unsent,
                   editCount, callCount>>
    /\ UNCHANGED <<dvars, mvars, bvars, fvars, cvars, avars, hvars>>

\* The backend serves the query of a load(): the drafts, or an error.
LoadServe(l) ==
    /\ l.state = "sent"
    /\ \E data \in {Some(DraftsQuery(lead_drafts)), None} :
          loads' = BagAdd(BagDrop(loads, l),
                          [state |-> "served", origin |-> l.origin, data |-> data,
                           sel |-> l.sel])
    /\ glast' = [op |-> "other", id |-> "-"]
    /\ UNCHANGED <<lead_drafts, rows, gridLoading, gridError, saveTimers,
                   dirtyMap, saves, unsent, editCount, callCount>>
    /\ UNCHANGED <<dvars, mvars, bvars, fvars, cvars, avars, hvars>>

\* if (data?.id) setSelectedIds(prev => ({...prev, [data.id]: true}))
AutoSelect(sel, id) ==
    IF id = None THEN sel
    ELSE [d \in DOMAIN sel \cup {id[1]} |-> IF d = id[1] THEN TRUE ELSE sel[d]]

\* The response of a load() arrives: the rows are replaced, or on an error
\* emptied; the load() of an addBlankRow then selects the new draft.
LoadApply(l) ==
    /\ l.state = "served"
    /\ IF l.data = None
       THEN /\ gridError' = Some(BackendMsg)
            /\ rows' = EmptyPatch
       ELSE /\ rows' = l.data[1]
            /\ UNCHANGED gridError
    /\ gridLoading' = FALSE
    /\ loads' = BagDrop(loads, l)
    /\ glast' = [op |-> "loadApply", origin |-> l.origin, ok |-> l.data # None]
    /\ UNCHANGED <<lead_drafts, saveTimers, dirtyMap, saves, unsent, editCount,
                   callCount>>
    /\ selectedIds' = AutoSelect(selectedIds, l.sel)
    /\ UNCHANGED <<rpcs, routed, batchCount>>
    /\ UNCHANGED <<dvars, mvars, fvars, cvars, avars, hvars>>

\* No timeout is pending, nothing was edited, no update has failed.
HistoryInit ==
    /\ timerQueue = [d \in DOMAIN saveTimers |-> 0]
    /\ lastEdit = [d \in DOMAIN saveTimers |-> EmptyPatch]
    /\ anyFailed = FALSE

\* The grid of a specification that does not run it.
GridIdle ==
    /\ lead_drafts = EmptyPatch
    /\ rows = EmptyPatch
    /\ gridLoading = TRUE
    /\ gridError = None
    /\ saveTimers = EmptyPatch
    /\ dirtyMap = EmptyPatch
    /\ saves = EmptyBag
    /\ loads = EmptyBag
    /\ unsent = EmptyPatch
    /\ editCount = 0
    /\ callCount = 0
    /\ glast = [op |-> "init", id |-> "-"]
    /\ HistoryInit

\* After the mount: two blank drafts in the backend, the effect's load() in
\* flight.
GridInit ==
    /\ lead_drafts = [d \in Drafts |-> BlankDraft]
    /\ rows = EmptyPatch
    /\ gridLoading = TRUE
    /\ gridError = None
    /\ saveTimers = [d \in Drafts |-> FALSE]
    /\ dirtyMap = [d \in Drafts |-> EmptyPatch]
    /\ saves = EmptyBag
    /\ loads = SetToBag({SentLoad("ui")})
    /\ unsent = [d \in Drafts |-> EmptyPatch]
    /\ editCount = 0
    /\ callCount = 0
    /\ glast = [op |-> "init", id |-> "-"]
    /\ HistoryInit

GridNext ==
    \/ \E e \in EditInputs : EditCell(e[1], e[2], e[3])
    \/ \E id \in Drafts : TimerFire(id)
    \/ \E s \in BagToSet(saves) : SaveOk(s)
    \/ \E s \in BagToSet(saves) : SaveFailed(s)
    \/ RefreshClick
    \/ \E l \in BagToSet(loads) : LoadServe(l)
    \/ \E l \in BagToSet(loads) : LoadApply(l)

\* ========================================================================
\* Selection, commit and delete of drafts
\* ========================================================================
\* Object.entries(selectedIds).filter(([, v]) => v).map(([id]) => id)
draftIds == {id \in DOMAIN selectedIds : selectedIds[id]}

\* Object.values(selectedIds).filter(Boolean).length
selectedCount == Cardinality(draftIds)

\* The draft rows the grid shows.
DraftRows == {d \in DOMAIN rows : rows[d].status = "draft"}

\* {...prev, [id]: checked}
WithChecked(sel, id, checked) ==
    [d \in DOMAIN sel \cup {id} |-> IF d = id THEN checked ELSE sel[d]]

\* One call for each draft of the batch.
CommitRequests_PerDraft(ids) == SetToBag({[op |-> "commit", ids |-> {d}] : d \in ids})

\* supabase.rpc("commit_lead_drafts", { draft_ids: draftIds }): one call that
\* carries the whole batch.
CommitRequests(ids) == SetToBag({[op |-> "commit", ids |-> ids]})

\* The confirmation is not asked for.
DeleteProceeds_NoConfirm(ids, confirmed) == ids # {}

\* The call is made for an empty batch too.
DeleteProceeds_EvenEmpty(ids, confirmed) == confirmed

\* deleteSelectedDrafts goes on to the backend call: a batch, and
\* window.confirm answered with OK.
DeleteProceeds(ids, confirmed) == ids # {} /\ confirmed

\* The selection is cleared whatever the outcome of the call.
SelectionAfter_AlwaysClear(sel, failed) == EmptyPatch

\* if (error) { setError(error.message); return }  setSelectedIds({})
SelectionAfter(sel, failed) == IF failed THEN sel ELSE EmptyPatch

\* commit_lead_drafts in the backend: every draft of the batch becomes
\* committed, with committed_at and committed_lead_id stamped, in one
\* transaction.
CommitRows(tbl, ids) ==
    [d \in DOMAIN tbl |->
        IF d \in ids
        THEN [tbl[d] EXCEPT !.status = "committed",
                            !.committed_at = Some("now"),
                            !.committed_lead_id = Some(d)]
        ELSE tbl[d]]

\* delete_lead_drafts in the backend: every draft of the batch is removed, in
\* one transaction.
DeleteRows(tbl, ids) == [d \in DOMAIN tbl \ ids |-> tbl[d]]

\* The batch a backend call accepts: drafts only.
AllDrafts(tbl, ids) == \A d \in ids : d \in DOMAIN tbl /\ tbl[d].status = "draft"

\* toggleOne: the checkbox of a draft row.
ToggleOne(id, checked) ==
    /\ ~routed
    /\ id \in DraftRows
    /\ selectedIds' = WithChecked(selectedIds, id, checked)
    /\ glast' = [op |-> "other", id |-> "-"]
    /\ UNCHANGED <<lead_drafts, rows, gridLoading, gridError, saveTimers,
                   dirtyMap, saves, loads, unsent, editCount, callCount>>
    /\ UNCHANGED <<rpcs, routed, batchCount>>
    /\ UNCHANGED <<dvars, mvars, fvars, cvars, avars, hvars>>

\* toggleAllDrafts: the checkbox of the header.
ToggleAllDrafts(checked) ==
    /\ ~routed
    /\ selectedIds' = [d \in DraftRows |-> checked]
    /\ glast' = [op |-> "other", id |-> "-"]
    /\ UNCHANGED <<lead_drafts, rows, gridLoading, gridError, saveTimers,
                   dirtyMap, saves, loads, unsent, editCount, callCount>>
    /\ UNCHANGED <<rpcs, routed, batchCount>>
    /\ UNCHANGED <<dvars, mvars, fvars, cvars, avars, hvars>>

\* commitSelected up to its await.  The button is disabled with nothing
\* selected.
CommitSelected ==
    /\ ~routed
    /\ batchCount < MaxBatches
    /\ selectedCount # 0
    /\ gridError' = None
    /\ rpcs' = rpcs (+) CommitRequests(draftIds)
    /\ batchCount' = batchCount + 1
    /\ glast' = [op |-> "commitSelected", ids |-> draftIds]
    /\ UNCHANGED <<lead_drafts, rows, gridLoading, saveTimers, dirtyMap, saves,
                   loads, unsent, editCount, callCount>>
    /\ UNCHANGED <<selectedIds, routed>>
    /\ UNCHANGED <<dvars, mvars, fvars, cvars, avars, hvars>>

\* commitSelected called as a function, whatever the state of its button:
\* with no selected id it returns after setError(null).
CommitSelectedCalled ==
    /\ ~routed
    /\ batchCount < MaxBatches
    /\ gridError' = None
    /\ IF draftIds = {}
       THEN UNCHANGED <<rpcs, batchCount>>
       ELSE /\ rpcs' = rpcs (+) CommitRequests(draftIds)
            /\ batchCount' = batchCount + 1
    /\ glast' = [op |-> "commitSelected", ids |-> draftIds]
    /\ UNCHANGED <<lead_drafts, rows, gridLoading, saveTimers, dirtyMap, saves,
                   loads, unsent, editCount, callCount>>
    /\ UNCHANGED <<selectedIds, routed>>
    /\ UNCHANGED <<dvars, mvars, fvars, cvars, avars, hvars>>

\* The commit succeeded: the selection is cleared and the grid is left for
\* the feed.
CommitOk(c) ==
    /\ c.op = "commit"
    /\ AllDrafts(lead_drafts, c.ids)
    /\ lead_drafts' = CommitRows(lead_drafts, c.ids)
    /\ rpcs' = BagDrop(rpcs, c)
    /\ selectedIds' = SelectionAfter(selectedIds, FALSE)
    /\ routed' = TRUE
    /\ glast' = [op |-> "commitOk", ids |-> c.ids]
    /\ UNCHANGED <<rows, gridLoading, gridError, saveTimers, dirtyMap, saves,
                   loads, unsent, editCount, callCount>>
    /\ UNCHANGED batchCount
    /\ UNCHANGED <<dvars, mvars, fvars, cvars, avars, hvars>>

\* A commit or a delete failed: the message of the backend is shown.
RpcFailed(c) ==
    /\ rpcs' = BagDrop(rpcs, c)
    /\ gridError' = Some(BackendMsg)
    /\ selectedIds' = SelectionAfter(selectedIds, TRUE)
    /\ glast' = [op |-> "rpcFailed", ids |-> c.ids]
    /\ UNCHANGED <<lead_drafts, rows, gridLoading, saveTimers, dirtyMap, saves,
                   loads, unsent, editCount, callCount>>
    /\ UNCHANGED <<routed, batchCount>>
    /\ UNCHANGED <<dvars, mvars, fvars, cvars, avars, hvars>>

\* deleteSelectedDrafts up to its await: nothing happens without a batch or
\* without the confirmation.
DeleteSelectedDrafts(confirmed) ==
    /\ ~routed
    /\ batchCount < MaxBatches
    /\ gridError' = None
    /\ IF DeleteProceeds(draftIds, confirmed)
       THEN /\ rpcs' = BagAdd(rpcs, [op |-> "delete", ids |-> draftIds])
            /\ batchCount' = batchCount + 1
       ELSE UNCHANGED <<rpcs, batchCount>>
    /\ glast' = [op |-> "deleteSelected", ids |-> draftIds,
                 asked |-> draftIds # {}, confirmed |-> draftIds # {} /\ confirmed]
    /\ UNCHANGED <<lead_drafts, rows, gridLoading, saveTimers, dirtyMap, saves,
                   loads, unsent, editCount, callCount>>
    /\ UNCHANGED <<selectedIds, routed>>
    /\ UNCHANGED <<dvars, mvars, fvars, cvars, avars, hvars>>

\* The delete succeeded: the selection is cleared and load() starts.
DeleteOk(c) ==
    /\ c.op = "delete"
    /\ AllDrafts(lead_drafts, c.ids)
    /\ lead_drafts' = DeleteRows(lead_drafts, c.ids)
    /\ rpcs' = BagDrop(rpcs, c)
    /\ selectedIds' = SelectionAfter(selectedIds, FALSE)
    /\ gridLoading' = TRUE
    /\ gridError' = None
    /\ loads' = BagAdd(loads, SentLoad("delete"))
    /\ glast' = [op |-> "deleteOk", ids |-> c.ids]
    /\ UNCHANGED <<rows, saveTimers, dirtyMap, saves, unsent, editCount, callCount>>
    /\ UNCHANGED <<routed, batchCount>>
    /\ UNCHANGED <<dvars, mvars, fvars, cvars, avars, hvars>>

\* The selection of a specification that does not run it.
BatchIdle ==
    /\ selectedIds = EmptyPatch
    /\ rpcs = EmptyBag
    /\ routed = FALSE
    /\ batchCount = 0

\* The edits made while drafts are selected, committed and deleted.
BatchEditInputs == {e \in EditInputs : e[1] = "d1" /\ e[3] = <<"a">>}

\* The selection with commit and delete, on a grid that is not edited.
SelectNext ==
    \/ \E id \in Drafts, checked \in BOOLEAN : ToggleOne(id, checked)
    \/ \E checked \in BOOLEAN : ToggleAllDrafts(checked)
    \/ CommitSelected
    \/ \E c \in BagToSet(rpcs) : CommitOk(c)
    \/ \E c \in BagToSet(rpcs) : RpcFailed(c)
    \/ \E confirmed \in BOOLEAN : DeleteSelectedDrafts(confirmed)
    \/ \E c \in BagToSet(rpcs) : DeleteOk(c)
    \/ RefreshClick
    \/ \E l \in BagToSet(loads) : LoadServe(l)
    \/ \E l \in BagToSet(loads) : LoadApply(l)

\* Commit and delete of drafts that are being edited.
BatchNext ==
    \/ \E id \in Drafts : ToggleOne(id, TRUE)
    \/ CommitSelected
    \/ \E c \in BagToSet(rpcs) : CommitOk(c)
    \/ \E c \in BagToSet(rpcs) : RpcFailed(c)
    \/ DeleteSelectedDrafts(TRUE)
    \/ \E c \in BagToSet(rpcs) : DeleteOk(c)
    \/ \E e \in BatchEditInputs : EditCell(e[1], e[2], e[3])
    \/ \E id \in Drafts : TimerFire(id)
    \/ \E s \in BagToSet(saves) : SaveOk(s)
    \/ \E s \in BagToSet(saves) : SaveFailed(s)
    \/ \E l \in BagToSet(loads) : LoadServe(l)
    \/ \E l \in BagToSet(loads) : LoadApply(l)

\* ========================================================================
\* addBlankRow
\* ========================================================================
\* insert([{ status: "draft" }]): a payload that also names the company.
BlankPayload_Named == [status |-> "draft", company_name |-> Some(<<"a">>)]

\* insert([{ status: "draft" }])
BlankPayload == [status |-> "draft"]

\* The ids the backend gives to new drafts, in the order it gives them.
NewIds == <<"d3", "d4", "d5">>
NextNewId(tbl) ==
    NewIds[CHOOSE i \in 1..Len(NewIds) :
              /\ NewIds[i] \notin DOMAIN tbl
              /\ \A j \in 1..(i - 1) : NewIds[j] \in DOMAIN tbl]

\* The row an insert creates: the supplied fields, every other field null.
InsertDraft(tbl, id, payload) ==
    [d \in DOMAIN tbl \cup {id} |->
        IF d = id
        THEN [k \in EditableKey \cup SystemKey |->
                 IF k \in DOMAIN payload THEN payload[k] ELSE None]
        ELSE tbl[d]]

\* saveTimers.current[id] and dirtyMap.current[id] of a draft that has none
\* yet: no timer, no patch.
WithDraft(f, id, v) ==
    [d \in DOMAIN f \cup {id} |-> IF d \in DOMAIN f THEN f[d] ELSE v]

\* addBlankRow up to its await: the error is cleared and the insert issued.
AddBlankRow ==
    /\ ~routed
    /\ addCount < MaxAdds
    /\ addCount' = addCount + 1
    /\ gridError' = None
    /\ adds' = BagAdd(adds, BlankPayload)
    /\ glast' = [op |-> "addBlankRow", id |-> "-"]
    /\ UNCHANGED <<lead_drafts, rows, gridLoading, saveTimers, dirtyMap, saves,
                   loads, unsent, editCount, callCount>>
    /\ UNCHANGED <<dvars, mvars, bvars, fvars, cvars, hvars>>

\* The insert succeeded: the draft exists and load() starts; its id is
\* selected once the load() has returned.
AddOk(payload) ==
    /\ LET id == NextNewId(lead_drafts)
       IN /\ lead_drafts' = InsertDraft(lead_drafts, id, payload)
          /\ loads' = BagAdd(loads, [SentLoad("add") EXCEPT !.sel = Some(id)])
          /\ saveTimers' = WithDraft(saveTimers, id, FALSE)
          /\ dirtyMap' = WithDraft(dirtyMap, id, EmptyPatch)
          /\ unsent' = WithDraft(unsent, id, EmptyPatch)
          /\ glast' = [op |-> "addOk", id |-> id]
    /\ adds' = BagDrop(adds, payload)
    /\ gridLoading' = TRUE
    /\ gridError' = None
    /\ UNCHANGED <<rows, saves, editCount, callCount, addCount>>
    /\ timerQueue' = WithDraft(timerQueue, NextNewId(lead_drafts), 0)
    /\ lastEdit' = WithDraft(lastEdit, NextNewId(lead_drafts), EmptyPatch)
    /\ UNCHANGED anyFailed
    /\ UNCHANGED <<dvars, mvars, bvars, fvars, cvars>>

\* The insert failed: the error is shown.
AddFailed(payload) ==
    /\ adds' = BagDrop(adds, payload)
    /\ gridError' = Some(BackendMsg)
    /\ glast' = [op |-> "addFailed", id |-> "-"]
    /\ UNCHANGED <<lead_drafts, rows, gridLoading, saveTimers, dirtyMap, saves,
                   loads, unsent, editCount, callCount, addCount>>
    /\ UNCHANGED <<dvars, mvars, bvars, fvars, cvars, hvars>>

AddIdle ==
    /\ adds = EmptyBag
    /\ addCount = 0

\* The edits made to a new draft in the model.
AddEditInputs == { <<"d3", "company_name", <<"a">> >> }

AddNext ==
    \/ AddBlankRow
    \/ \E payload \in BagToSet(adds) : AddOk(payload)
    \/ \E payload \in BagToSet(adds) : AddFailed(payload)
    \/ \E id \in Drafts : ToggleOne(id, TRUE)
    \/ \E e \in AddEditInputs : EditCell(e[1], e[2], e[3])
    \/ \E id \in DOMAIN saveTimers : TimerFire(id)
    \/ \E s \in BagToSet(saves) : SaveOk(s)
    \/ \E s \in BagToSet(saves) : SaveFailed(s)
    \/ \E l \in BagToSet(loads) : LoadServe(l)
    \/ \E l \in BagToSet(loads) : LoadApply(l)

\* ========================================================================
\* The decision feed
\* ========================================================================
OutcomeStatus == {"won", "lost", "pending"}

LatestOutcome == {Some("won"), Some("lost"), Some("no_response"), None}

\* The outcome status the view derives from the latest outcome.
OutcomeStatusOf(lo) ==
    IF lo = Some("won") THEN "won"
    ELSE IF lo = Some("lost") THEN "lost"
    ELSE "pending"

\* The rows the view leads_effective can hold for a lead: the recommended
\* action, the action of the latest override or null, the effective action
\* resolved from the two, the latest outcome and the status derived from it.
EffectiveRows(l) ==
    {[lead_id |-> l,
      score |-> IF l = "L1" THEN 85 ELSE 40,
      recommended_action |-> rec,
      latest_override_action |-> ov,
      effective_action |-> IF ov = None THEN rec ELSE ov[1],
      latest_outcome |-> lo,
      outcome_status |-> OutcomeStatusOf(lo)] :
        rec \in {"pursue", "review"},
        ov \in {None, Some("pursue"), Some("kill")},
        lo \in LatestOutcome}

\* lead.latest_override_action &&
\*   lead.latest_override_action !== lead.recommended_action
isOverridden(ld) ==
    /\ ld.latest_override_action # None
    /\ ld.latest_override_action[1] # ld.recommended_action

\* rows.map(lead => ({lead_id, score, recommended_action: effective_action}))
LogPayload(rs) ==
    {[lead_id |-> rs[l].lead_id, score |-> rs[l].score,
      recommended_action |-> rs[l].effective_action] : l \in DOMAIN rs}

\* The rows with the latest outcome shown as the status.
FeedRows_RawOutcome(data) ==
    IF data = None THEN EmptyPatch
    ELSE [l \in DOMAIN data[1] |->
            [data[1][l] EXCEPT !.outcome_status =
                IF data[1][l].latest_outcome = None THEN "pending"
                ELSE data[1][l].latest_outcome[1]]]

\* (data || []) as LeadDecisionRow[]
FeedRows(data) == IF data = None THEN EmptyPatch ELSE data[1]

\* The pending count taken from the latest outcome being null.
outcomeCounts_ByLatestOutcome(ls) ==
    [all |-> Cardinality(DOMAIN ls),
     pending |-> Cardinality({l \in DOMAIN ls : ls[l].latest_outcome = None}),
     won |-> Cardinality({l \in DOMAIN ls : ls[l].outcome_status = "won"}),
     lost |-> Cardinality({l \in DOMAIN ls : ls[l].outcome_status = "lost"})]

\* outcomeCounts: leads.length and leads.filter(l => l.outcome_status === s).length
outcomeCounts(ls) ==
    [all |-> Cardinality(DOMAIN ls),
     pending |-> Cardinality({l \in DOMAIN ls : ls[l].outcome_status = "pending"}),
     won |-> Cardinality({l \in DOMAIN ls : ls[l].outcome_status = "won"}),
     lost |-> Cardinality({l \in DOMAIN ls : ls[l].outcome_status = "lost"})]

\* The feed is opened: the state of a fresh mount.
FeedMount ==
    /\ feedPc = "done"
    /\ mounts < MaxMounts
    /\ mounts' = mounts + 1
    /\ leads' = EmptyPatch
    /\ feedError' = None
    /\ feedLoading' = TRUE
    /\ feedPc' = "start"
    /\ UNCHANGED <<leads_effective, decision_logs>>
    /\ UNCHANGED <<dvars, gvars, mvars, bvars, cvars, avars, hvars>>

\* fetchLeads: the query of leads_effective; on an error the message is set
\* and the leads are left, else the rows are kept and logDecisions starts.
FetchLeads ==
    /\ feedPc = "start"
    /\ \/ /\ feedError' = Some(BackendMsg)
          /\ feedLoading' = FALSE
          /\ feedPc' = "done"
          /\ UNCHANGED leads
       \/ /\ \E data \in {Some(leads_effective), None} : leads' = FeedRows(data)
          /\ feedPc' = "log"
          /\ UNCHANGED <<feedError, feedLoading>>
    /\ UNCHANGED <<leads_effective, decision_logs, mounts>>
    /\ UNCHANGED <<dvars, gvars, mvars, bvars, cvars, avars, hvars>>

\* logDecisions(rows): nothing with no rows, else one insert into
\* decision_logs whose result is not looked at; then the loading ends.
LogDecisions ==
    /\ feedPc = "log"
    /\ \/ /\ DOMAIN leads # {}
          /\ decision_logs' = decision_logs (+) SetToBag(LogPayload(leads))
       \/ UNCHANGED decision_logs
    /\ feedLoading' = FALSE
    /\ feedPc' = "done"
    /\ UNCHANGED <<leads_effective, leads, feedError, mounts>>
    /\ UNCHANGED <<dvars, gvars, mvars, bvars, cvars, avars, hvars>>

\* The feed of a specification that does not run it.
FeedIdle ==
    /\ leads_effective = EmptyPatch
    /\ decision_logs = EmptyBag
    /\ leads = EmptyPatch
    /\ feedError = None
    /\ feedLoading = TRUE
    /\ feedPc = "start"
    /\ mounts = 0

\* The feed at its first mount, over the contents of the view.
FeedInit ==
    /\ \E present \in SUBSET LeadIds :
          leads_effective \in [present -> UNION {EffectiveRows(l) : l \in LeadIds}]
    /\ \A l \in DOMAIN leads_effective : leads_effective[l].lead_id = l
    /\ decision_logs = EmptyBag
    /\ leads = EmptyPatch
    /\ feedError = None
    /\ feedLoading = TRUE
    /\ feedPc = "start"
    /\ mounts = 1

FeedNext ==
    \/ FeedMount
    \/ FetchLeads
    \/ LogDecisions

\* ========================================================================
\* The create-lead form
\* ========================================================================
\* The range inputs: min 0, max 5.
SliderValues == 0..5

CompanyNames == {<<>>, <<" ">>, <<"a">>}

RequiredMsg == "Company name is required"

NewDraftId == "d3"

\* The row of lead_drafts the insert of the form creates.  The three
\* capability flags of the form are stored with it and are not modelled.
FormRow(payload) ==
    [k \in EditableKey \cup SystemKey |->
        IF k = "status" THEN "draft"
        ELSE IF k = "company_name" THEN Some(payload.company_name)
        ELSE IF k \in MetricKey THEN Some(payload[k])
        ELSE None]

\* update(key, value) of the company name input.
UpdateCompanyName(name) ==
    /\ ~createRouted
    /\ formEdits < MaxFormEdits
    /\ formEdits' = formEdits + 1
    /\ form' = [form EXCEPT !.company_name = name]
    /\ UNCHANGED <<createLoading, createError, createReq, createRouted>>
    /\ UNCHANGED <<dvars, gvars, mvars, bvars, fvars, avars, hvars>>

\* update(key, Number(e.target.value)) of a range input.
UpdateSlider(key, v) ==
    /\ ~createRouted
    /\ formEdits < MaxFormEdits
    /\ formEdits' = formEdits + 1
    /\ form' = [form EXCEPT ![key] = v]
    /\ UNCHANGED <<createLoading, createError, createReq, createRouted>>
    /\ UNCHANGED <<dvars, gvars, mvars, bvars, fvars, avars, hvars>>

\* submit with no check of the company name.
CreateSubmit_NoValidation ==
    /\ ~createRouted
    /\ ~createLoading
    /\ createLoading' = TRUE
    /\ createError' = None
    /\ createReq' = Some(form)
    /\ UNCHANGED <<form, createRouted, formEdits>>
    /\ UNCHANGED <<dvars, gvars, mvars, bvars, fvars, avars, hvars>>

\* submit up to its await.  The button is disabled while loading.
CreateSubmit ==
    /\ ~createRouted
    /\ ~createLoading
    /\ IF Trim(form.company_name) = <<>>
       THEN /\ createError' = Some(RequiredMsg)
            /\ UNCHANGED <<createLoading, createReq>>
       ELSE /\ createLoading' = TRUE
            /\ createError' = None
            /\ createReq' = Some(form)
    /\ UNCHANGED <<form, createRouted, formEdits>>
    /\ UNCHANGED <<dvars, gvars, mvars, bvars, fvars, avars, hvars>>

\* The insert succeeded: the draft exists and the form is left for the grid.
CreateOk ==
    /\ createReq # None
    /\ lead_drafts' = [d \in DOMAIN lead_drafts \cup {NewDraftId} |->
                          IF d = NewDraftId THEN FormRow(createReq[1])
                          ELSE lead_drafts[d]]
    /\ createReq' = None
    /\ createLoading' = FALSE
    /\ createRouted' = TRUE
    /\ UNCHANGED <<form, createError, formEdits>>
    /\ UNCHANGED <<rows, gridLoading, gridError, saveTimers, dirtyMap, saves,
                   loads, unsent, editCount, callCount, glast>>
    /\ UNCHANGED <<dvars, mvars, bvars, fvars, avars, hvars>>

\* The insert failed: the message is shown.
CreateFailed ==
    /\ createReq # None
    /\ createReq' = None
    /\ createLoading' = FALSE
    /\ createError' = Some(BackendMsg)
    /\ UNCHANGED <<form, createRouted, formEdits>>
    /\ UNCHANGED <<dvars, gvars, mvars, bvars, fvars, avars, hvars>>

CreateInit ==
    /\ form = [k \in MetricKey \cup {"company_name"} |->
                 IF k = "company_name" THEN <<>> ELSE 3]
    /\ createLoading = FALSE
    /\ createError = None
    /\ createReq = None
    /\ createRouted = FALSE
    /\ formEdits = 0

CreateNext ==
    \/ \E name \in CompanyNames : UpdateCompanyName(name)
    \/ \E key \in MetricKey, v \in SliderValues : UpdateSlider(key, v)
    \/ CreateSubmit
    \/ CreateOk
    \/ CreateFailed

\* ========================================================================
\* The metric input
\* ========================================================================
Alphabet == {" ", "-", "+", ".", "3", "7", "8", "a", "b", "c"}
RawStrings == UNION {[1..n -> Alphabet] : n \in 0..MaxRawLen}

MetricIdle ==
    /\ mKey = "company_name"
    /\ mRaw = <<>>

\* The field and the raw input that will be typed into a cell of draft d1.
MetricInit ==
    /\ mKey \in EditableKey
    /\ mRaw \in RawStrings

\* The grid once the load() of the mount has arrived.
GridLoaded ==
    /\ lead_drafts = [d \in Drafts |-> BlankDraft]
    /\ rows = DraftsQuery(lead_drafts)
    /\ gridLoading = FALSE
    /\ gridError = None
    /\ saveTimers = [d \in Drafts |-> FALSE]
    /\ dirtyMap = [d \in Drafts |-> EmptyPatch]
    /\ saves = EmptyBag
    /\ loads = EmptyBag
    /\ unsent = [d \in Drafts |-> EmptyPatch]
    /\ editCount = 0
    /\ callCount = 0
    /\ glast = [op |-> "loadApply", origin |-> "ui", ok |-> TRUE]
    /\ HistoryInit

MetricNext == EditCell("d1", mKey, mRaw)

\* ========================================================================
\* Specifications
\* ========================================================================
InitDecision == DecisionInit /\ GridIdle /\ MetricIdle /\ BatchIdle /\ FeedIdle /\ CreateInit /\ AddIdle
SpecDecision == InitDecision /\ [][DecisionNext]_vars
SpecReason == InitDecision /\ [][ReasonNext]_vars

\* The decision view of a specification that does not run it.
DecisionIdle ==
    /\ DecisionInit
    /\ leadId = None

InitDrafts == DecisionIdle /\ GridInit /\ MetricIdle /\ BatchIdle /\ FeedIdle /\ CreateInit /\ AddIdle
SpecDrafts == InitDrafts /\ [][GridNext]_vars

\* The grid with the edits of one draft, under the fairness of the timers:
\* a pending timer expires.
FairEditInputs == {e \in EditInputs : e[1] = "d1"}

FairGridNext ==
    \/ \E e \in FairEditInputs : EditCell(e[1], e[2], e[3])
    \/ \E id \in Drafts : TimerFire(id)
    \/ \E s \in BagToSet(saves) : SaveOk(s)
    \/ \E s \in BagToSet(saves) : SaveFailed(s)
    \/ RefreshClick
    \/ \E l \in BagToSet(loads) : LoadServe(l)
    \/ \E l \in BagToSet(loads) : LoadApply(l)

SpecDraftsFair ==
    /\ InitDrafts
    /\ [][FairGridNext]_vars
    /\ \A d \in Drafts : WF_vars(TimerFire(d))

InitBatch == DecisionIdle /\ GridInit /\ MetricIdle /\ BatchIdle /\ FeedIdle /\ CreateInit /\ AddIdle
SpecBatch == InitBatch /\ [][BatchNext]_vars

InitSelect == DecisionIdle /\ GridInit /\ MetricIdle /\ BatchIdle /\ FeedIdle /\ CreateInit /\ AddIdle
SpecSelect == InitSelect /\ [][SelectNext]_vars

\* The two batch handlers called with any selection, the empty one included.
CalledNext ==
    \/ \E id \in Drafts, checked \in BOOLEAN : ToggleOne(id, checked)
    \/ CommitSelectedCalled
    \/ \E c \in BagToSet(rpcs) : CommitOk(c)
    \/ \E c \in BagToSet(rpcs) : RpcFailed(c)
    \/ \E confirmed \in BOOLEAN : DeleteSelectedDrafts(confirmed)
    \/ \E c \in BagToSet(rpcs) : DeleteOk(c)
    \/ \E l \in BagToSet(loads) : LoadServe(l)
    \/ \E l \in BagToSet(loads) : LoadApply(l)

SpecCalled == InitSelect /\ [][CalledNext]_vars

InitFeed == DecisionIdle /\ GridIdle /\ MetricIdle /\ BatchIdle /\ FeedInit /\ CreateInit /\ AddIdle
SpecFeed == InitFeed /\ [][FeedNext]_vars

InitCreate == DecisionIdle /\ GridIdle /\ MetricIdle /\ BatchIdle /\ FeedIdle /\ CreateInit /\ AddIdle
SpecCreate == InitCreate /\ [][CreateNext]_vars

\* The decision view over the typed reasons together with the create-lead
\* form over its company name.
ValidateNext ==
    \/ MissingLeadId
    \/ FetchDecision
    \/ FetchLatestOverride
    \/ FetchHistory
    \/ \E r \in TypedReasons : SetOverrideReason(r)
    \/ SubmitOverride
    \/ InsertOk(MaxReasonEvents)
    \/ InsertFailed
    \/ \E i \in 1..Len(refreshQ) : RefreshServe(i)
    \/ \E i \in 1..Len(refreshQ) : RefreshApply(i)
    \/ \E name \in CompanyNames : UpdateCompanyName(name)
    \/ CreateSubmit
    \/ CreateOk
    \/ CreateFailed

SpecValidate == InitDecision /\ [][ValidateNext]_vars

\* The submit path of both versions of the decision view: the view mounted
\* is the current one or the older one.
Views == {"decision-inner", "older"}

SavingInit ==
    /\ view \in Views
    /\ leadId \in {None, Some("L1"), Some(UnknownLead)}
    /\ leads_scored = [l \in LeadIds |-> IF l = "L1" THEN "pursue" ELSE "review"]
    /\ decision_overrides = <<>>
    /\ lead = None
    /\ override = None
    /\ history = <<>>
    /\ loading = TRUE
    /\ error = None
    /\ overrideAction = "review"
    /\ overrideReason = EmptyStr
    /\ saving = FALSE
    /\ saveMsg = None
    /\ fetchPc = "start"
    /\ insertReq = None
    /\ refreshQ = <<>>
    /\ insertsOk = 0
    /\ asOf = 0

SavingNext ==
    \/ MissingLeadId
    \/ FetchDecision
    \/ FetchLatestOverride
    \/ FetchHistory
    \/ OlderFetchLatestOverride
    \/ \E r \in TypedReasons : SetOverrideReason(r)
    \/ SubmitOverride
    \/ InsertOk(MaxEvents)
    \/ OlderSubmitOverride
    \/ OlderInsertOk(MaxEvents)
    \/ InsertFailed
    \/ \E i \in 1..Len(refreshQ) : RefreshServe(i)
    \/ \E i \in 1..Len(refreshQ) : RefreshApply(i)
    \/ \E i \in 1..Len(refreshQ) : OlderRefetchServe(i)
    \/ \E i \in 1..Len(refreshQ) : OlderRefetchApply(i)
    \/ \E l \in LeadIds, a \in OperatorActions : OperatorInsert(l, a)

InitSaving == SavingInit /\ GridIdle /\ MetricIdle /\ BatchIdle /\ FeedIdle /\ CreateInit /\ AddIdle
SpecSaving == InitSaving /\ [][SavingNext]_vars

SpecAdd == InitDrafts /\ [][AddNext]_vars

\* The edit session of draft d1 over every input column of the grid: the
\* cell typed into, its timer, its update and the load() that follows.
KeyRaws == {<<"a">>, <<"3">>}

KeysInit ==
    /\ mKey \in InputKeys
    /\ mRaw \in KeyRaws

KeysNext ==
    \/ EditCell("d1", mKey, mRaw)
    \/ TimerFire("d1")
    \/ \E s \in BagToSet(saves) : SaveOk(s)
    \/ \E s \in BagToSet(saves) : SaveFailed(s)
    \/ \E l \in BagToSet(loads) : LoadServe(l)
    \/ \E l \in BagToSet(loads) : LoadApply(l)

InitKeys == DecisionIdle /\ GridLoaded /\ KeysInit /\ BatchIdle /\ FeedIdle /\ CreateInit /\ AddIdle
SpecKeys == InitKeys /\ [][KeysNext]_vars

InitMetric == DecisionIdle /\ GridLoaded /\ MetricInit /\ BatchIdle /\ FeedIdle /\ CreateInit /\ AddIdle
SpecMetric == InitMetric /\ [][MetricNext]_vars

\* ========================================================================
\* Properties
\* ========================================================================
\* The view shows a lead and no fetch or refresh of it is in flight.
Settled == fetchPc = "done" /\ lead # None /\ refreshQ = <<>>

\* The rows of the view's lead that the ledger held when the query behind
\* the displayed override was served, in insertion order.
SeenRows == ForLead(SubSeq(decision_overrides, 1, asOf), leadId[1])

\* C1: once the fetch and every refresh have completed, the effective action
\* is the action of the most recently created override of the lead as of the
\* query, and the recommended action when the lead had none.
C1_EffectiveIsLatest ==
    Settled =>
        effectiveAction = (IF SeenRows = <<>> THEN lead[1]
                           ELSE SeenRows[Len(SeenRows)].override_action)

\* C2: the ledger holds as many events as inserts succeeded, and every step
\* leaves it as it is or appends one row to it.
C2_AppendOnly ==
    /\ [](Len(decision_overrides) = insertsOk)
    /\ [][\/ decision_overrides' = decision_overrides
          \/ /\ Len(decision_overrides') = Len(decision_overrides) + 1
             /\ SubSeq(decision_overrides', 1, Len(decision_overrides))
                   = decision_overrides]_vars

\* Two events of one lead with the same action, reason and created_at: the
\* view submitted the same override twice, in the same clock tick.
C2_Witness ==
    /\ Len(decision_overrides) = 2
    /\ decision_overrides[1].override_action \notin OperatorActions
    /\ Select(decision_overrides[1], OverrideCols)
          = Select(decision_overrides[2], OverrideCols)

\* C3: the displayed history is newest first by creation, and its first
\* element is the event that determines the effective action.
C3_HistoryNewestFirst ==
    (Settled /\ history # <<>>) =>
        /\ \A i, j \in 1..Len(history) : i < j => history[i].id > history[j].id
        /\ override # None
        /\ Select(override[1], OverrideCols) = Select(history[1], OverrideCols)
        /\ effectiveAction = history[1].override_action

\* C4: every result the latest-override query can give for a lead is the
\* event of the lead inserted last.
C4_DeterministicLatest ==
    \A l \in LeadIds :
        \A r \in LatestOverrideQuery(decision_overrides, l) :
            r # <<>> =>
                r[1] = Select(ForLead(decision_overrides, l)
                                 [Len(ForLead(decision_overrides, l))],
                              OverrideCols)

\* C5: submitOverride issues the insert exactly when the trimmed reason has
\* at most 280 characters.
C5_TrimmedLimit ==
    [][SubmitOverride =>
          ((insertReq' # None) <=> (StrLen(TrimStr(overrideReason)) <= MaxReason))]_vars

\* The stored value of a metric cell for a raw input: null when the input is
\* blank or no number, else the number truncated toward zero and clamped.
MetricExpected(raw) ==
    LET n == parseNumberOrNull(raw)
    IN IF n = None THEN None
       ELSE IF n[1].neg \/ n[1].int < 1 THEN Some(1)
       ELSE IF n[1].int > 5 THEN Some(5)
       ELSE Some(n[1].int)

\* C6: every metric cell of the rows and of the dirty patches is null or an
\* integer in [1,5]; after editCell the cell and the staged value are the raw
\* input truncated and clamped ("7.8" gives 5, "-3" gives 1, "abc" null).
C6_MetricRange ==
    /\ \A d \in DOMAIN rows : \A k \in MetricKey :
          rows[d][k] = None \/ rows[d][k][1] \in 1..5
    /\ \A d \in DOMAIN dirtyMap : \A k \in DOMAIN dirtyMap[d] \cap MetricKey :
          dirtyMap[d][k] = None \/ dirtyMap[d][k][1] \in 1..5
    /\ (editCount > 0 /\ mKey \in MetricKey) =>
          /\ rows["d1"][mKey] = MetricExpected(mRaw)
          /\ mKey \in DOMAIN dirtyMap["d1"]
          /\ dirtyMap["d1"][mKey] = MetricExpected(mRaw)
          /\ (mRaw = <<"7", ".", "8">> => rows["d1"][mKey] = Some(5))
          /\ (mRaw = <<"-", "3">> => rows["d1"][mKey] = Some(1))
          /\ (mRaw = <<"a", "b", "c">> => rows["d1"][mKey] = None)
          /\ (mRaw \in {<<>>, <<" ">>, <<"-">>, <<".">>, <<"3", "a">>}
                 => rows["d1"][mKey] = None)

\* The raw input "7.8" was edited into a metric cell and is stored as 5.
C6_Witness ==
    /\ editCount > 0
    /\ mKey = "buyer_quality"
    /\ mRaw = <<"7", ".", "8">>
    /\ rows["d1"]["buyer_quality"] = Some(5)
    /\ dirtyMap["d1"]["buyer_quality"] = Some(5)

\* The timer of draft d expires in this step.
Expires(d) == saveTimers[d] /\ ~saveTimers'[d]

\* C7: the expiry of a draft's timer, which ends a burst of edits that each
\* came before the expiry of the timer of the one before, issues exactly one
\* update, whose patch carries the last value of every cell edited in the
\* burst; and no other step issues an update.
C7_OneCallPerBurst ==
    /\ [][\A d \in Drafts :
             Expires(d) =>
                /\ callCount' = callCount + 1
                /\ saves' = BagAdd(saves, [id |-> d, patch |-> unsent[d]])
                /\ unsent[d] # EmptyPatch]_vars
    /\ [][(callCount' # callCount \/ BagCardinality(saves') > BagCardinality(saves))
             => \E d \in Drafts : Expires(d)]_vars

\* Two edits were made, both to the same cell before its timer expired: one
\* update was issued, it carries that cell alone, and nothing is pending.
C7_Witness ==
    /\ editCount = 2
    /\ callCount = 1
    /\ saves = SetToBag({[id |-> "d1", patch |-> [k \in {"company_name"} |-> Some(<<"b">>)]]})
    /\ \A d \in Drafts : unsent[d] = EmptyPatch /\ ~saveTimers[d]

\* C8: the dirty patch of a draft holds exactly the edits no update carries
\* yet, with a pending timer while it is not empty; the completion of an
\* update leaves every dirty patch as it is; and an edit not yet carried is
\* eventually carried by an update.
C8_BufferSwap ==
    /\ [](\A d \in Drafts :
             /\ dirtyMap[d] = unsent[d]
             /\ (unsent[d] # EmptyPatch => saveTimers[d]))
    /\ [][BagCardinality(saves') < BagCardinality(saves) => dirtyMap' = dirtyMap]_vars
    /\ \A d \in Drafts : (unsent[d] # EmptyPatch) ~> (unsent[d] = EmptyPatch)

\* An update of a draft has just succeeded while an edit made during its
\* flight is staged.
C8_Witness ==
    /\ glast.op = "saveOk"
    /\ dirtyMap[glast.id] # EmptyPatch

\* C9: after a failed update the fields of its patch are still outstanding
\* in the dirty patch of the draft.
C9_FailedPatchKept ==
    glast.op = "saveFailed" =>
        \A k \in DOMAIN glast.patch : k \in DOMAIN dirtyMap[glast.id]

\* C10: when the load() that follows an update arrives, every cell of every
\* draft that is still staged in a dirty patch keeps the edited value in the
\* rows.
C10_NoClobber ==
    (glast.op = "loadApply" /\ glast.origin = "save") =>
        \A d \in DOMAIN rows : \A k \in DOMAIN dirtyMap[d] :
            rows[d][k] = dirtyMap[d][k]

\* A draft of the backend that is committed, with its stamps.
Committed(tbl, d) ==
    /\ d \in DOMAIN tbl
    /\ tbl[d].status = "committed"
    /\ tbl[d].committed_at # None
    /\ tbl[d].committed_lead_id # None

\* C11: commitSelected issues one call that carries every selected id; the
\* end of a commit call either turns every draft of its batch from draft to
\* committed, with committed_at and committed_lead_id set, and leaves the
\* other drafts alone, or changes no draft and shows the backend's message.
C11_CommitAllOrNothing ==
    /\ [][(batchCount' # batchCount /\ glast'.op = "commitSelected") =>
             /\ rpcs' = BagAdd(rpcs, [op |-> "commit", ids |-> draftIds])
             /\ lead_drafts' = lead_drafts]_vars
    /\ [][\A c \in BagToSet(rpcs) :
             (c.op = "commit" /\ rpcs' = BagDrop(rpcs, c)) =>
                \/ /\ lead_drafts' = lead_drafts
                   /\ gridError' = Some(BackendMsg)
                \/ /\ \A d \in c.ids :
                         /\ d \in DOMAIN lead_drafts
                         /\ lead_drafts[d].status = "draft"
                         /\ Committed(lead_drafts', d)
                   /\ \A d \in DOMAIN lead_drafts \ c.ids :
                         d \in DOMAIN lead_drafts' /\ lead_drafts'[d] = lead_drafts[d]]_vars
    /\ [](glast.op = "commitOk" => \A d \in glast.ids : Committed(lead_drafts, d))

\* A batch of two drafts was committed by one call.
C11_Witness ==
    /\ glast.op = "commitOk"
    /\ glast.ids = Drafts
    /\ batchCount = 1
    /\ \A d \in Drafts : Committed(lead_drafts, d)

\* C12: an update is issued only for a draft the backend holds in status
\* draft, and no step changes a committed draft.
C12_NoWriteAfterDraft ==
    [][/\ \A d \in Drafts :
             (Expires(d) /\ callCount' # callCount) =>
                (d \in DOMAIN lead_drafts /\ lead_drafts[d].status = "draft")
       /\ \A d \in DOMAIN lead_drafts :
             lead_drafts[d].status = "committed" =>
                (d \in DOMAIN lead_drafts' /\ lead_drafts'[d] = lead_drafts[d])]_vars

\* C13: every id of a commit or delete call that is issued is the id of a
\* draft row the grid holds at that moment.
C13_OnlyLoadedDraftsSent ==
    [][batchCount' # batchCount =>
          \A c \in BagToSet(rpcs') :
              CopiesIn(c, rpcs') > CopiesIn(c, rpcs) => c.ids \subseteq DraftRows]_vars

\* C14: a delete call is issued only by a deleteSelectedDrafts whose
\* confirmation was asked and given, and a deleteSelectedDrafts whose
\* confirmation was declined issues no call and leaves the rows, the
\* selection and the drafts of the backend as they are.
C14_DeleteNeedsConfirm ==
    /\ [][\A c \in BagToSet(rpcs') :
             (c.op = "delete" /\ CopiesIn(c, rpcs') > CopiesIn(c, rpcs)) =>
                /\ glast'.op = "deleteSelected"
                /\ glast'.asked
                /\ glast'.confirmed
                /\ c.ids = glast'.ids]_vars
    /\ [][(glast'.op = "deleteSelected" /\ ~glast'.confirmed) =>
             /\ rpcs' = rpcs
             /\ rows' = rows
             /\ selectedIds' = selectedIds
             /\ lead_drafts' = lead_drafts]_vars

\* The confirmation of a delete of two selected drafts was declined.
C14_Witness ==
    /\ glast.op = "deleteSelected"
    /\ glast.ids = Drafts
    /\ glast.asked
    /\ ~glast.confirmed
    /\ rpcs = EmptyBag
    /\ DraftRows = Drafts

\* C15: the step that issues a commit or a delete call changes neither the
\* rows nor the selection nor the drafts of the backend; the failure of a
\* call changes only the error message; a successful delete leaves the rows
\* as they are and starts a load(), and the rows become the result of that
\* load when it arrives.
C15_NoOptimisticUpdate ==
    /\ [][batchCount' # batchCount =>
             /\ rows' = rows
             /\ selectedIds' = selectedIds
             /\ lead_drafts' = lead_drafts]_vars
    /\ [][(glast'.op = "rpcFailed" /\ rpcs' # rpcs) =>
             /\ rows' = rows
             /\ selectedIds' = selectedIds
             /\ lead_drafts' = lead_drafts
             /\ loads' = loads
             /\ gridLoading' = gridLoading
             /\ gridError' = Some(BackendMsg)]_vars
    /\ [][(glast'.op = "deleteOk" /\ rpcs' # rpcs) =>
             /\ rows' = rows
             /\ loads' = BagAdd(loads, SentLoad("delete"))]_vars
    /\ [][\A l \in BagToSet(loads) :
             (l.origin = "delete" /\ l.state = "served" /\ l.data # None
                 /\ loads' = BagDrop(loads, l)) => rows' = l.data[1]]_vars

\* A commit or delete of two selected drafts has just failed: both are still
\* shown and selected, and the backend's message is shown.
C15_Witness ==
    /\ glast.op = "rpcFailed"
    /\ glast.ids = Drafts
    /\ draftIds = Drafts
    /\ DraftRows = Drafts
    /\ gridError = Some(BackendMsg)

\* C16: the arrival of a failed load() leaves the rows as they were.
C16_FailedLoadKeepsRows ==
    [][(loads' # loads /\ glast'.op = "loadApply" /\ ~glast'.ok) => rows' = rows]_vars

\* C17: no step of the feed or of the decision view writes to a table of the
\* backend.
C17_ResolvePureRead ==
    [][/\ decision_logs' = decision_logs
       /\ decision_overrides' = decision_overrides
       /\ leads_scored' = leads_scored
       /\ leads_effective' = leads_effective
       /\ lead_drafts' = lead_drafts]_vars

\* The decision view shows the "Overridden" line when an override is held.
OverriddenShown == override # None

\* C18: the decision view marks the lead overridden exactly when the latest
\* override's action is non-null and differs from the recommended action.
C18_OverriddenBadge ==
    Rendered =>
        (OverriddenShown <=>
            (override # None /\ override[1].override_action # lead[1]))

\* C19: every metric of every draft is null or an integer from 1 to 5.
C19_MetricsInRange ==
    \A d \in DOMAIN lead_drafts : \A k \in MetricKey :
        lead_drafts[d][k] = None \/ lead_drafts[d][k][1] \in 1..5

\* The values the edits of the model can stage for a cell of a draft.
EditedValues(id, key) ==
    {EditValue(e[2], e[3]) : e \in {x \in EditInputs : x[1] = id /\ x[2] = key}}

\* C20: an editCell on a draft leaves the timer, the staged patch and the
\* displayed row of every other draft as they were, and every update in
\* flight for a draft carries only values edited into that draft.
C20_EditsIndependent ==
    /\ [][(editCount' # editCount /\ glast'.op = "editCell") =>
            \A b \in Drafts \ {glast'.id} :
                /\ saveTimers'[b] = saveTimers[b]
                /\ dirtyMap'[b] = dirtyMap[b]
                /\ DOMAIN rows' = DOMAIN rows
                /\ b \in DOMAIN rows => rows'[b] = rows[b]]_vars
    /\ [](\A s \in BagToSet(saves) : \A k \in DOMAIN s.patch :
            s.patch[k] \in EditedValues(s.id, k))

\* The other draft has a pending timer and a staged patch when a draft is
\* edited, and that draft's update is then issued.
C20_Witness ==
    /\ \E s \in BagToSet(saves) : s.id = "d1"
    /\ "d2" \in DOMAIN rows
    /\ saveTimers["d2"]
    /\ DOMAIN dirtyMap["d2"] # {}
    /\ rows["d2"].email # None

\* C21: with no lead_id, or when the scored-decision query fails or has no
\* row, the view ends on the not-found page: no lead, no form, no override
\* or history result applied, the loading indicator cleared; and it stays so.
C21_NotFoundState ==
    /\ []((fetchPc = "done" /\ (leadId = None \/ error # None)) =>
            /\ NotFoundShown
            /\ ~Rendered
            /\ lead = None
            /\ override = None
            /\ history = <<>>
            /\ asOf = 0
            /\ insertReq = None
            /\ refreshQ = <<>>)
    /\ [][(fetchPc = "done" /\ error # None) =>
            UNCHANGED <<lead, override, history, loading, error, fetchPc>>]_vars

\* The view was opened with no lead_id and shows the not-found page.
C21_Witness ==
    /\ leadId = None
    /\ fetchPc = "done"
    /\ error = Some(MissingLeadMsg)
    /\ NotFoundShown

\* C22: a submit of the create-lead form with a blank company name issues no
\* insert and shows the error, a submit of an override with a reason that is
\* too long issues no insert, and both forms can be submitted again.
C22_ValidationBlocks ==
    /\ [][(createReq' # createReq /\ createReq' # None) =>
            Trim(createReq'[1].company_name) # <<>>]_vars
    /\ [][(createError' # createError /\ createError' = Some(RequiredMsg)) =>
            /\ Trim(form.company_name) = <<>>
            /\ UNCHANGED <<createReq, createLoading, lead_drafts>>]_vars
    /\ [][(~createLoading /\ ~createRouted /\ Trim(form.company_name) = <<>>) =>
            (createReq' = None /\ lead_drafts' = lead_drafts)]_vars
    /\ []((createError = Some(RequiredMsg) /\ ~createRouted) =>
            (~createLoading /\ createReq = None))
    /\ [][(insertReq' # insertReq /\ insertReq' # None) =>
            ~ReasonTooLong(overrideReason)]_vars
    /\ [][(saveMsg' # saveMsg /\ saveMsg' = Some(TooLongMsg)) =>
            /\ ReasonTooLong(overrideReason)
            /\ UNCHANGED <<insertReq, decision_overrides, refreshQ>>
            /\ ~saving']_vars
    /\ [](saveMsg = Some(TooLongMsg) => (~saving /\ insertReq = None))

\* Both validations have failed and the forms wait for a corrected input.
C22_Witness ==
    /\ createError = Some(RequiredMsg)
    /\ form.company_name = <<" ">>
    /\ saveMsg = Some(TooLongMsg)
    /\ ReasonTooLong(overrideReason)

\* C23: when the override insert fails the backend's message is shown, no
\* other insert or query is issued for the submission, and the displayed
\* override and history, the typed reason and the chosen action are left.
C23_InsertFailureKeepsState ==
    /\ [][(insertReq # None /\ insertReq' = None /\ insertsOk' = insertsOk) =>
            /\ saveMsg' = Some(BackendMsg)
            /\ ~saving'
            /\ UNCHANGED <<override, history, overrideReason, overrideAction,
                           decision_overrides, refreshQ, lead>>]_vars
    /\ [][(insertReq' # insertReq /\ insertReq' # None) =>
            (insertReq = None /\ ~saving /\ saving' /\ saveMsg' = None)]_vars

\* A failed insert after a saved override, with a reason typed.
C23_Witness ==
    /\ saveMsg = Some(BackendMsg)
    /\ fetchPc = "done"
    /\ insertReq = None
    /\ override # None
    /\ history # <<>>
    /\ overrideReason = Str(1, 5, 0)

C25_RefreshFromSource ==
    /\ [][(saves' # saves /\ glast'.op = "saveOk") =>
            /\ rows' = rows
            /\ loads' = BagAdd(loads, SentLoad("save"))
            /\ gridLoading']_vars
    /\ [][(saves' # saves /\ glast'.op = "saveFailed") =>
            /\ rows' = rows
            /\ loads' = loads]_vars
    /\ [][(rows' # rows /\ glast'.op # "editCell") =>
            /\ glast'.op = "loadApply"
            /\ \E l \in BagToSet(loads) :
                  /\ l.state = "served"
                  /\ loads' = BagDrop(loads, l)
                  /\ rows' = (IF l.data = None THEN EmptyPatch ELSE l.data[1])]_vars
    /\ [][\A l \in BagToSet(loads') :
            (l.state = "served" /\ CopiesIn(l, loads') > CopiesIn(l, loads)) =>
                l.data \in {None, Some(DraftsQuery(lead_drafts))}]_vars

\* The load() started by a successful update has arrived, and the rows show
\* the saved value.
C25_Witness ==
    /\ glast.op = "loadApply"
    /\ glast.origin = "save"
    /\ glast.ok
    /\ "d1" \in DOMAIN rows
    /\ rows["d1"].company_name # None
    /\ rows["d1"] = lead_drafts["d1"]

\* C26: addBlankRow issues one insert whose payload is only status = draft;
\* its success adds one row to the backend, draft with every other field
\* null, and starts a load(); when that load() arrives with data the new
\* draft is in the rows, editable, and selected; its failure shows the error
\* and leaves the rows, the selection and the backend.
C26_AddBlankRow ==
    /\ [][addCount' # addCount =>
            /\ adds' = BagAdd(adds, [status |-> "draft"])
            /\ UNCHANGED <<rows, selectedIds, lead_drafts, loads>>]_vars
    /\ [][(adds' # adds /\ glast'.op = "addOk") =>
            /\ glast'.id \notin DOMAIN lead_drafts
            /\ DOMAIN lead_drafts' = DOMAIN lead_drafts \cup {glast'.id}
            /\ lead_drafts'[glast'.id] = BlankDraft
            /\ \A d \in DOMAIN lead_drafts : lead_drafts'[d] = lead_drafts[d]
            /\ BagCardinality(loads') = BagCardinality(loads) + 1
            /\ BagCardinality(adds') = BagCardinality(adds) - 1
            /\ UNCHANGED <<rows, selectedIds>>]_vars
    /\ [][(adds' # adds /\ glast'.op = "addFailed") =>
            /\ gridError' = Some(BackendMsg)
            /\ UNCHANGED <<rows, selectedIds, lead_drafts, loads>>]_vars
    /\ [][\A l \in BagToSet(loads) :
            (/\ l.sel # None
             /\ l.data # None
             /\ glast'.op = "loadApply"
             /\ loads' = BagDrop(loads, l)) =>
                /\ l.sel[1] \in DOMAIN rows'
                /\ rows'[l.sel[1]].status = "draft"
                /\ l.sel[1] \in draftIds']_vars

\* The new draft was loaded, selected and then edited.
C26_Witness ==
    /\ "d3" \in DOMAIN rows
    /\ rows["d3"].company_name = Some(<<"a">>)
    /\ "d3" \in draftIds
    /\ addCount = 1

\* The step that issues the insert of a submitted reason puts stored(reason)
\* in the payload.
IssuesReasonAs(stored(_)) ==
    (insertReq = None /\ insertReq' # None) =>
        insertReq'[1].override_reason = stored(overrideReason)

\* The step that adds the row of an insert stores the reason of its payload.
RowKeepsReason ==
    (insertReq # None /\ Len(decision_overrides') = Len(decision_overrides) + 1) =>
        decision_overrides'[Len(decision_overrides')].override_reason
            = insertReq[1].override_reason

Verbatim(r) == IF StrLen(TrimStr(r)) = 0 THEN None ELSE Some(r)
Trimmed(r) == IF StrLen(TrimStr(r)) = 0 THEN None ELSE Some(TrimStr(r))

\* C27: the reason of the inserted event is the submitted text, character
\* for character, when it is not blank, and null when it is blank.
C27_StoredVerbatim ==
    [][IssuesReasonAs(Verbatim) /\ RowKeepsReason]_vars

\* C27 (amended): the reason of the inserted event is the submitted text
\* without its leading and trailing whitespace, so a text with none (one of
\* exactly 280 characters) is stored character for character, and null when
\* the text is blank.
C27_StoredTrimmed ==
    /\ [][IssuesReasonAs(Trimmed) /\ RowKeepsReason]_vars
    /\ [][(insertReq = None /\ insertReq' # None
           /\ overrideReason.pre = 0 /\ overrideReason.post = 0
           /\ overrideReason.core > 0) =>
            insertReq'[1].override_reason = Some(overrideReason)]_vars

\* An event whose reason has exactly 280 characters is in the ledger.
C27_Witness ==
    \E i \in 1..Len(decision_overrides) :
        decision_overrides[i].override_reason = Some(Str(0, MaxReason, 0))

\* C28: an editCell of a cell sets that cell of the draft's row to the
\* normalised value and stages the same value in the draft's dirty patch,
\* over the value staged before and next to the other staged cells; and the
\* update issued at the expiry of the timer carries the staged patch, which
\* holds the latest value of exactly the cells edited since the last one.
C28_EditStagesLatest ==
    /\ [][(editCount' # editCount /\ glast'.op = "editCell") =>
            LET id == glast'.id
            IN \E e \in {x \in EditInputs : x[1] = id} :
                  LET key == e[2]
                      v == EditValue(key, e[3])
                  IN /\ rows'[id][key] = v
                     /\ \A d \in DOMAIN rows : \A k \in DOMAIN rows[d] :
                           (d # id \/ k # key) => rows'[d][k] = rows[d][k]
                     /\ DOMAIN dirtyMap'[id] = DOMAIN dirtyMap[id] \cup {key}
                     /\ dirtyMap'[id][key] = v
                     /\ \A k \in DOMAIN dirtyMap[id] \ {key} :
                           dirtyMap'[id][k] = dirtyMap[id][k]
                     /\ unsent'[id] = dirtyMap'[id]]_vars
    /\ [][\A s \in BagToSet(saves') :
            CopiesIn(s, saves') > CopiesIn(s, saves) =>
                /\ s.patch = dirtyMap[s.id]
                /\ s.patch = unsent[s.id]
                /\ DOMAIN s.patch # {}
                /\ dirtyMap'[s.id] = EmptyPatch]_vars

\* Two cells of a draft were edited before its timer expired: the rows show
\* the normalised values and the update carries both cells and no other.
C28_Witness ==
    /\ editCount = 2
    /\ callCount = 1
    /\ "d1" \in DOMAIN rows
    /\ rows["d1"].buyer_quality = Some(5)
    /\ \E s \in BagToSet(saves) :
          /\ s.id = "d1"
          /\ DOMAIN s.patch = {"company_name", "buyer_quality"}
          /\ s.patch["buyer_quality"] = Some(5)
          /\ s.patch["company_name"] = rows["d1"].company_name

TextKey == {"company_name", "contact_name", "email", "phone", "source"}

Blank(raw) == \A i \in 1..Len(raw) : raw[i] = " "

\* The raw input between its first and its last non-blank character.
Inner(raw) ==
    LET first == CHOOSE i \in 1..Len(raw) :
                    raw[i] # " " /\ \A j \in 1..(i - 1) : raw[j] = " "
        last == CHOOSE i \in 1..Len(raw) :
                    raw[i] # " " /\ \A j \in (i + 1)..Len(raw) : raw[j] = " "
    IN [i \in 1..(last - first + 1) |-> raw[first + i - 1]]

\* The amount a raw input denotes: null when it is blank or not a decimal
\* literal (an optional sign, digits with at most one dot, a digit at
\* least), else its sign, integer part and fraction digits.
SpendExpected(raw) ==
    IF Blank(raw) THEN None
    ELSE LET s == Inner(raw)
             signs == IF s[1] \in {"+", "-"} THEN 1 ELSE 0
             body == (signs + 1)..Len(s)
             dots == {i \in body : s[i] = "."}
             digits == {i \in body : s[i] \in Digit}
         IN IF /\ dots \cup digits = body
               /\ Cardinality(dots) <= 1
               /\ digits # {}
            THEN LET dot == IF dots = {} THEN Len(s) + 1 ELSE CHOOSE i \in dots : TRUE
                 IN Some([neg |-> s[1] = "-",
                          int |-> DigitsToInt(SubSeq(s, signs + 1, dot - 1)),
                          frac |-> SubSeq(s, dot + 1, Len(s))])
            ELSE None

\* Amounts typed with padding, a sign and a fraction are stored as numbers.
SpendCases ==
    /\ SpendExpected(<<" ", "3", "7">>) = Some([neg |-> FALSE, int |-> 37, frac |-> <<>>])
    /\ SpendExpected(<<"-", "3", ".">>) = Some([neg |-> TRUE, int |-> 3, frac |-> <<>>])
    /\ SpendExpected(<<"3", ".", "7">>) = Some([neg |-> FALSE, int |-> 3, frac |-> <<"7">>])
    /\ SpendExpected(<<"3", " ", "7">>) = None
    /\ SpendExpected(<<"3", "a">>) = None
    /\ SpendExpected(<<".">>) = None

\* C29: the value editCell stores and stages for a free-text cell is null
\* when the raw input is blank and the raw input itself otherwise; for
\* estimated_spend it is the number the input denotes, or null when the
\* input is blank or denotes none.
C29_TextAndSpendValues ==
    (editCount > 0 /\ mKey \notin MetricKey) =>
        /\ SpendCases
        /\ mKey \in TextKey =>
              rows["d1"][mKey] = (IF Blank(mRaw) THEN None ELSE Some(mRaw))
        /\ mKey = "estimated_spend" =>
              rows["d1"][mKey] = SpendExpected(mRaw)
        /\ dirtyMap["d1"] = [k \in {mKey} |-> rows["d1"][mKey]]
        /\ \A k \in EditableKey \ {mKey} : rows["d1"][k] = None

\* A padded text was typed into a free-text cell and is stored as typed.
C29_Witness ==
    /\ editCount > 0
    /\ mKey = "email"
    /\ mRaw = <<" ", "a", " ">>
    /\ rows["d1"]["email"] = Some(<<" ", "a", " ">>)

\* C30: the expiry of a timer whose draft has an empty dirty patch issues no
\* update and starts no load(); every update issued carries a non-empty
\* patch; and a pending timer always has a non-empty patch behind it.
C30_NoEmptyPatchCall ==
    /\ [][\A d \in Drafts :
            (Expires(d) /\ DOMAIN dirtyMap[d] = {}) =>
                UNCHANGED <<saves, loads, callCount, lead_drafts, rows>>]_vars
    /\ [](\A s \in BagToSet(saves) : DOMAIN s.patch # {})
    /\ [][callCount' # callCount =>
            \E d \in Drafts :
                /\ Expires(d)
                /\ DOMAIN dirtyMap[d] # {}
                /\ loads' = loads]_vars
    /\ [](\A d \in Drafts : saveTimers[d] => DOMAIN dirtyMap[d] # {})

\* A timer has expired and its update, with a non-empty patch, is in flight.
C30_Witness ==
    /\ callCount = 1
    /\ editCount = 1
    /\ \E s \in BagToSet(saves) : s.id = "d2" /\ DOMAIN s.patch = {"email"}
    /\ ~saveTimers["d2"]
    /\ dirtyMap["d2"] = EmptyPatch

\* No timer is pending, no update is in flight and none has failed.
EditsSettled ==
    /\ \A d \in DOMAIN saveTimers : ~saveTimers[d]
    /\ saves = EmptyBag
    /\ ~anyFailed

\* C31: once every timer has expired and every update has succeeded, the
\* backend holds, for every cell that was edited, the value of its last edit.
C31_LastEditPersisted ==
    EditsSettled =>
        \A d \in DOMAIN lastEdit : \A k \in DOMAIN lastEdit[d] :
            lead_drafts[d][k] = lastEdit[d][k]

\* C32: the step that issues the commit call finds, for every draft of the
\* call, an empty dirty patch, no pending timer and no update in flight.
C32_CommitAfterFlush ==
    [][(batchCount' # batchCount /\ glast'.op = "commitSelected") =>
            \A d \in glast'.ids :
                /\ d \in DOMAIN dirtyMap => DOMAIN dirtyMap[d] = {}
                /\ d \in DOMAIN saveTimers => ~saveTimers[d]
                /\ \A s \in BagToSet(saves) : s.id # d]_vars

\* C33: every draft has at most one pending timeout, and has one exactly
\* when the timer its ref holds is pending.
C33_OneTimerPerDraft ==
    \A d \in DOMAIN timerQueue :
        /\ timerQueue[d] \in {0, 1}
        /\ timerQueue[d] = 1 <=> saveTimers[d]

\* Two edits of one draft came within the debounce window: one timeout is
\* pending.
C33_Witness ==
    /\ editCount = 2
    /\ callCount = 0
    /\ DOMAIN lastEdit["d1"] = {"company_name", "buyer_quality"}
    /\ timerQueue["d1"] = 1
    /\ timerQueue["d2"] = 0

\* The fields of a draft the edit session must not write.
ProtectedKey == SystemKey \cup {"score", "recommended_action"}

\* C34: every patch staged or sent by the edit session holds only editable
\* keys, none of them a lifecycle or derived field, and no step of the
\* session changes the status or the commit stamps of a draft.
C34_PatchKeysEditable ==
    /\ [](\A s \in BagToSet(saves) :
            /\ DOMAIN s.patch \subseteq EditableKey
            /\ DOMAIN s.patch \cap ProtectedKey = {})
    /\ [](\A d \in DOMAIN dirtyMap :
            /\ DOMAIN dirtyMap[d] \subseteq EditableKey
            /\ DOMAIN dirtyMap[d] \cap ProtectedKey = {})
    /\ [][\A d \in DOMAIN lead_drafts : \A k \in SystemKey :
            lead_drafts'[d][k] = lead_drafts[d][k]]_vars

\* An update of the spend cell was applied and the draft is a draft still.
C34_Witness ==
    /\ mKey = "estimated_spend"
    /\ lead_drafts["d1"].estimated_spend # None
    /\ lead_drafts["d1"].status = "draft"
    /\ saves = EmptyBag

\* C35: whenever neither the fetch nor a refresh is in flight, the displayed
\* latest override is the event at the head of the displayed history, and is
\* absent exactly when the displayed history is empty.
C35_OverrideIsHistoryHead ==
    (fetchPc = "done" /\ refreshQ = <<>>) =>
        /\ (override = None) <=> (history = <<>>)
        /\ history # <<>> =>
              Select(override[1], OverrideCols) = Select(history[1], OverrideCols)

\* A request of submitOverride is in flight: its insert, or the query that
\* follows a successful insert.
SubmitInFlight == insertReq # None \/ refreshQ # <<>>

\* C36 as stated: saving is true exactly while an insert of the view is in
\* flight.
C36_SavingIffInsert == saving <=> (insertReq # None)

\* C36: saving is true throughout an insert of the view and false once
\* submitOverride has nothing in flight; the current view resets it when the
\* insert returns, the older view when its re-fetch returns; no submit
\* starts while an insert is in flight.
C36_SavingCoversInsert ==
    /\ [](insertReq # None => saving)
    /\ [](saving => SubmitInFlight)
    /\ [](view = "decision-inner" => (saving <=> insertReq # None))
    /\ [](view = "older" => (saving <=> SubmitInFlight))
    /\ [][insertReq # None => insertReq' \in {insertReq, None}]_vars

\* The older view after a successful insert, its re-fetch still in flight.
C36_Witness ==
    /\ view = "older"
    /\ insertsOk = 1
    /\ insertReq = None
    /\ refreshQ # <<>>
    /\ saving

\* A step of commitSelected or deleteSelectedDrafts taken with no selected id.
EmptyBatchStep ==
    /\ draftIds = {}
    /\ glast' # glast
    /\ glast'.op \in {"commitSelected", "deleteSelected"}

\* C37: commitSelected and deleteSelectedDrafts called with no selected id
\* issue no backend call, ask for no confirmation and leave the rows, the
\* stored drafts and the selection as they are.
C37_EmptyBatchNoEffect ==
    [][EmptyBatchStep =>
          /\ rpcs' = rpcs
          /\ loads' = loads
          /\ rows' = rows
          /\ lead_drafts' = lead_drafts
          /\ selectedIds' = selectedIds
          /\ routed' = routed
          /\ glast'.op = "deleteSelected" => ~glast'.asked]_vars

\* commitSelected was called with rows loaded and nothing selected.
C37_Witness ==
    /\ glast.op = "commitSelected"
    /\ glast.ids = {}
    /\ DraftRows # {}
    /\ rpcs = EmptyBag

\* C38: the message of a failed update stays shown until a further action
\* of the user; no step that completes another update or a load() clears or
\* replaces it.
C38_SaveErrorStays ==
    [][(gridError = Some(SaveFailedMsg) /\ gridError' # gridError) =>
          glast'.op \notin {"saveOk", "saveFailed", "loadApply"}]_vars

\* C39: the count shown for all is the sum of the counts for pending, won
\* and lost, and every loaded lead has exactly one of the three statuses.
C39_OutcomeCountsPartition ==
    LET c == outcomeCounts(leads)
    IN /\ c.all = c.pending + c.won + c.lost
       /\ \A l \in DOMAIN leads :
             Cardinality({s \in {"pending", "won", "lost"} :
                             leads[l].outcome_status = s}) = 1

\* Two leads are loaded, one won and one with no response yet.
C39_Witness ==
    /\ DOMAIN leads = LeadIds
    /\ \E l \in DOMAIN leads : leads[l].outcome_status = "won"
    /\ \E l \in DOMAIN leads : leads[l].latest_outcome = Some("no_response")
    /\ outcomeCounts(leads).all = 2

====
